---- MODULE Spec2Model ----
(***************************************************************************)
(* Things3 Workflow: import of Things3 tasks into vault notes, with the    *)
(* persisted import cache (imported.json) that prevents duplicate imports. *)
(*                                                                         *)
(* Strings the code inspects character by character (titles, uuids, file   *)
(* paths) are sequences of one-character strings.  Numbers read from the   *)
(* database are records [whole, frac]: whole seconds and a fraction in     *)
(* thousandths, so that Number.isInteger can be decided.                   *)
(***************************************************************************)
EXTENDS Integers, Sequences, FiniteSets, TLC

\* ------------------------------------------------------------------ bounds
\* At most this many rows in the TMTask table of one database.
MaxTasks == 2
\* Import / rebuild commands issued in one behaviour.
MaxRuns == 2
\* The wall clock (new Date()) reads 0..MaxClock.
MaxClock == 1
\* file modification times are 0..MaxMtime
MaxMtime == 2

\* --------------------------------------------------------- program constants
\* String(row.uuid).slice(0, 8)
UuidPrefixLen == 8
\* .slice(0, 50) of the sanitized title
TitleMaxLen == 50
\* abs > 1e9 selects the Unix branch of convertThingsDate
UnixThreshold == 1000000000
\* Buffer.alloc(16), the length of the header _isValidSQLiteFile reads
HeaderLen == 16

Null == [null |-> TRUE]
\* a value of a nullable column that is not NULL
Some(v) == [val |-> v]

\* ---------------------------------------------------------------- strings
Min(a, b) == IF a < b THEN a ELSE b

\* s.slice(0, n)
Slice(s, n) == SubSeq(s, 1, Min(n, Len(s)))

\* s.indexOf(sub) !== -1
Contains(s, sub) ==
  \E i \in 1..(Len(s) - Len(sub) + 1) : SubSeq(s, i, i + Len(sub) - 1) = sub

LowerChars == {"a","b","c","d","e","f","g","h","i","j","k","l","m",
               "n","o","p","q","r","s","t","u","v","w","x","y","z"}
UpperChars == {"A","B","C","D","E","F","G","H","I","J","K","L","M",
               "N","O","P","Q","R","S","T","U","V","W","X","Y","Z"}
DigitChars == {"0","1","2","3","4","5","6","7","8","9"}
\* the class [a-zA-Z0-9-_ ] of prepareFilePath
KeptChars == LowerChars \cup UpperChars \cup DigitChars \cup {"-", "_", " "}
\* \s of JavaScript, as far as the model's alphabet goes
SpaceChars == {" ", "\t", "\n"}

\* title.trim().length > 0
IsBlank(s) == \A i \in 1..Len(s) : s[i] \in SpaceChars

\* .replace(/[^a-zA-Z0-9-_ ]/g, '')
RECURSIVE StripUnsafe(_)
StripUnsafe(s) ==
  IF s = <<>> THEN <<>>
  ELSE IF Head(s) \in KeptChars THEN <<Head(s)>> \o StripUnsafe(Tail(s))
       ELSE StripUnsafe(Tail(s))

\* .replace(/\s+/g, '_'): every maximal run of whitespace becomes one "_"
RECURSIVE CollapseSpaces(_)
CollapseSpaces(s) ==
  IF s = <<>> THEN <<>>
  ELSE IF Head(s) \in SpaceChars
       THEN IF Len(s) > 1 /\ s[2] \in SpaceChars
            THEN CollapseSpaces(Tail(s))
            ELSE <<"_">> \o CollapseSpaces(Tail(s))
       ELSE <<Head(s)>> \o CollapseSpaces(Tail(s))

Digit(n) == CASE n = 0 -> "0" [] n = 1 -> "1" [] n = 2 -> "2" [] n = 3 -> "3"
              [] n = 4 -> "4" [] n = 5 -> "5" [] n = 6 -> "6" [] n = 7 -> "7"
              [] n = 8 -> "8" [] n = 9 -> "9"

Pad2(n) == <<Digit((n \div 10) % 10), Digit(n % 10)>>
Pad4(n) == <<Digit((n \div 1000) % 10), Digit((n \div 100) % 10),
             Digit((n \div 10) % 10), Digit(n % 10)>>

\* ------------------------------------------------------------------ dates
Num(w) == [whole |-> w, frac |-> 0]

\* !abs : null, undefined, 0 (and NaN) are falsy
Falsy(abs) == abs = Null \/ (abs.whole = 0 /\ abs.frac = 0)

\* The civil date of a day count since 1970-01-01 (what Date and toISOString
\* compute), for days >= 0.  Each step takes the values it needs as parameters.
CivilYear(yoe, era, m) == yoe + era * 400 + (IF m <= 2 THEN 1 ELSE 0)
CivilOfMp(yoe, era, doy, mp) ==
  [year  |-> CivilYear(yoe, era, IF mp < 10 THEN mp + 3 ELSE mp - 9),
   month |-> IF mp < 10 THEN mp + 3 ELSE mp - 9,
   day   |-> doy - (153 * mp + 2) \div 5 + 1]
CivilOfDoy(yoe, era, doy) == CivilOfMp(yoe, era, doy, (5 * doy + 2) \div 153)
CivilOfYoe(era, doe, yoe) ==
  CivilOfDoy(yoe, era, doe - (365 * yoe + yoe \div 4 - yoe \div 100))
CivilOfDoe(era, doe) ==
  CivilOfYoe(era, doe,
             (doe - doe \div 1460 + doe \div 36524 - doe \div 146096) \div 365)
CivilOfZ(z) == CivilOfDoe(z \div 146097, z - (z \div 146097) * 146097)
CivilFromDays(days) == CivilOfZ(days + 719468)

\* The day count since 1970-01-01 of a civil date: Date.UTC(year, month - 1, day),
\* which also normalises a day past the end of the month (April 31 is May 1).
DaysOfYoe(era, yoe, doy) ==
  era * 146097 + (yoe * 365 + yoe \div 4 - yoe \div 100 + doy) - 719468
DaysOfY(y, m, d) ==
  DaysOfYoe(y \div 400, y - (y \div 400) * 400,
            (153 * (IF m > 2 THEN m - 3 ELSE m + 9) + 2) \div 5 + d - 1)
DaysFromCivil(y0, m, d) == DaysOfY(IF m <= 2 THEN y0 - 1 ELSE y0, m, d)

NoDate == [valid |-> FALSE]

\* An ISO instant, as its fields.
IsoOf(c, sec, ms) ==
  [valid |-> TRUE, year |-> c.year, month |-> c.month, day |-> c.day,
   hour |-> sec \div 3600, minute |-> (sec % 3600) \div 60,
   second |-> sec % 60, ms |-> ms]

\* A packed branch without the bounds.
PackedDateUnchecked(year, month, day) ==
  IsoOf(CivilFromDays(DaysFromCivil(year, month, day)), 0, 0)

\* A packed branch that takes the date as local time, one hour east of UTC.
PackedDateLocal(year, month, day) ==
  IF year < 1900 \/ year > 2100 \/ month < 1 \/ month > 12 \/ day < 1 \/ day > 31
  THEN NoDate
  ELSE IsoOf(CivilFromDays(DaysFromCivil(year, month, day) - 1), 23 * 3600, 0)

\* The packed branch: year << 16 | month << 12 | day << 7
PackedDate(year, month, day) ==
  IF year < 1900 \/ year > 2100 \/ month < 1 \/ month > 12 \/ day < 1 \/ day > 31
  THEN NoDate
  ELSE IsoOf(CivilFromDays(DaysFromCivil(year, month, day)), 0, 0)

\* convertThingsDate: "" (NoDate) or the fields of the ISO string.
convertThingsDate(abs) ==
  IF Falsy(abs) THEN NoDate
  ELSE IF abs.whole > UnixThreshold
          \/ (abs.whole = UnixThreshold /\ abs.frac > 0)
          \/ abs.frac # 0
       THEN \* Unix timestamp: new Date(abs * 1000).toISOString()
            IsoOf(CivilFromDays(abs.whole \div 86400), abs.whole % 86400, abs.frac)
       ELSE PackedDate(abs.whole \div 65536, (abs.whole % 65536) \div 4096,
                       (abs.whole % 4096) \div 128)

\* iso.slice(0, 10).replace(/-/g, '')
YYYYMMDD(iso) ==
  IF iso.valid THEN Pad4(iso.year) \o Pad2(iso.month) \o Pad2(iso.day) ELSE <<>>

\* getYYYYMMDD
getYYYYMMDD(abs) == YYYYMMDD(convertThingsDate(abs))

\* ----------------------------------------------------------- the database
\* One row of TMTask with the titles its LEFT JOINs find (things3Service
\* buildQuery): tags are the titles of the row's TMTag rows, project the title
\* of the parent project, area the title of the row's own TMArea, project_area
\* the title of the parent project's TMArea; Null where the join finds nothing.
uuidA1 == <<"A","A","A","A","A","A","A","A","1">>
uuidA2 == <<"A","A","A","A","A","A","A","A","2">>
uuidB1 == <<"B","B","B","B","B","B","B","B","1">>
uuidC1 == <<"C","C","C","C","C","C","C","C","1">>
uuidD1 == <<"D","D","D","D","D","D","D","D","1">>

tagWork == <<"w","o","r","k">>
tagHome == <<"h","o","m","e">>
tagImported == <<"i","m","p","o","r","t","e","d">>

\* 2025-12-12 as a packed date
Packed20251212 == 2025 * 65536 + 12 * 4096 + 12 * 128

TaskPool ==
  { [uuid |-> uuidA1, title |-> <<"B","u","y"," ","m","i","l","k">>,
     notes |-> <<>>, creationDate |-> Num(Packed20251212), startDate |-> Null,
     stopDate |-> Num(1), deadline |-> Null, status |-> 0,
     trashed |-> 0, type |-> 0, tags |-> <<tagWork>>,
     project |-> Null, area |-> Null, project_area |-> Null],
    \* same title and date as A1, and the same first eight characters of uuid
    [uuid |-> uuidA2, title |-> <<"B","u","y"," ","m","i","l","k">>,
     notes |-> <<>>, creationDate |-> Num(Packed20251212), startDate |-> Null,
     stopDate |-> Num(2), deadline |-> Null, status |-> 0,
     trashed |-> 0, type |-> 0, tags |-> <<tagWork, tagHome>>,
     project |-> Null, area |-> Null, project_area |-> Null],
    \* a title whose file name contains "null"
    [uuid |-> uuidB1, title |-> <<"A","n","n","u","l","l","e","d">>,
     notes |-> <<>>, creationDate |-> Null, startDate |-> Null,
     stopDate |-> Num(2), deadline |-> Null, status |-> 3,
     trashed |-> 0, type |-> 0, tags |-> <<tagWork>>,
     project |-> Null, area |-> Null, project_area |-> Null],
    \* an empty title, no tag
    [uuid |-> uuidC1, title |-> <<>>,
     notes |-> <<>>, creationDate |-> Null, startDate |-> Num(Packed20251212),
     stopDate |-> Null, deadline |-> Null, status |-> 0,
     trashed |-> 0, type |-> 0, tags |-> <<>>,
     project |-> Null, area |-> Null, project_area |-> Null],
    \* a task Things3 itself marks as imported
    [uuid |-> uuidD1, title |-> <<"O","l","d">>,
     notes |-> <<>>, creationDate |-> Null, startDate |-> Null,
     stopDate |-> Num(3), deadline |-> Null, status |-> 3,
     trashed |-> 0, type |-> 0, tags |-> <<tagWork, tagImported>>,
     project |-> Null, area |-> Null, project_area |-> Null] }

\* The TMTask tables of the model: uuid is the primary key.
Databases == { t \in SUBSET TaskPool : Cardinality(t) <= MaxTasks }

\* ----------------------------------------------------------- the settings
\* A filter setting as the JavaScript value prepareFilters is handed: a string
\* (the comma-separated text the user typed), or a value of another type.
Str(s) == [typeof |-> "string", chars |-> s]
\* undefined (the setting is absent), or a number
NotAString(type) == [typeof |-> type, chars |-> <<>>]

\* Things3WorkflowSettings (settings.ts)
SettingsPool ==
  { [filterTags |-> Str(<<>>), filterProjects |-> Str(<<>>),
     filterAreas |-> Str(<<>>),
     destinationFolder |-> <<"t","3","/">>,
     includeProjectAsTag |-> TRUE, includeAreaAsTag |-> TRUE,
     noteSectionHeader |-> <<"N","o","t","e">>, detailsSectionHeader |-> <<>>,
     checklistSectionHeader |-> <<>>, customTags |-> <<>>],
    [filterTags |-> Str(<<"w","o","r","k",","," ">>), filterProjects |-> Str(<<>>),
     filterAreas |-> Str(<<>>), destinationFolder |-> <<>>,
     includeProjectAsTag |-> FALSE, includeAreaAsTag |-> TRUE,
     noteSectionHeader |-> <<>>, detailsSectionHeader |-> <<>>,
     checklistSectionHeader |-> <<>>, customTags |-> <<"t","3",",","w","o","r","k">>] }

\* TMChecklistItem: task, title, status and the explicit "index" column.
TMChecklistItem ==
  { [task |-> uuidA1, title |-> <<"s","o","y">>, status |-> 0, index |-> 2],
    [task |-> uuidA1, title |-> <<"o","a","t">>, status |-> 3, index |-> 1],
    [task |-> uuidC1, title |-> <<"x">>, status |-> 2, index |-> 1] }

\* ------------------------------------------------------------ Things3Service
Range(f) == { f[i] : i \in DOMAIN f }

\* s.split(',')
RECURSIVE Split(_)
Split(s) ==
  IF \A i \in 1..Len(s) : s[i] # ","
  THEN <<s>>
  ELSE LET k == CHOOSE i \in 1..Len(s) :
                  s[i] = "," /\ \A j \in 1..(i - 1) : s[j] # ","
       IN <<SubSeq(s, 1, k - 1)>> \o Split(SubSeq(s, k + 1, Len(s)))

\* t.trim()
RECURSIVE Trim(_)
Trim(s) ==
  IF s = <<>> THEN s
  ELSE IF Head(s) \in SpaceChars THEN Trim(Tail(s))
  ELSE IF s[Len(s)] \in SpaceChars THEN Trim(SubSeq(s, 1, Len(s) - 1))
  ELSE s

\* .filter(Boolean) on strings: the empty string is dropped
RECURSIVE DropEmpty(_)
DropEmpty(items) ==
  IF items = <<>> THEN <<>>
  ELSE IF Head(items) = <<>> THEN DropEmpty(Tail(items))
       ELSE <<Head(items)>> \o DropEmpty(Tail(items))

\* s.split(',').map(t => t.trim()).filter(Boolean)
SplitTrimmed(s) ==
  LET parts == Split(s)
  IN DropEmpty([i \in 1..Len(parts) |-> Trim(parts[i])])

\* A split that turns a value that is not a string into text first.
splitAsText(val) ==
  IF val.typeof = "string" THEN SplitTrimmed(val.chars)
  ELSE <<<<"N","a","N">>>>

\* safeSplit of prepareFilters: typeof val === 'string' ? ... : []
safeSplit(val) ==
  IF val.typeof = "string" THEN SplitTrimmed(val.chars) ELSE <<>>

prepareFilters(st) ==
  [tags |-> safeSplit(st.filterTags),
   projects |-> safeSplit(st.filterProjects),
   areas |-> safeSplit(st.filterAreas)]

\* x IN (list) of SQL for a nullable column: NULL is in no list
InList(col, list) == col # Null /\ col.val \in Range(list)

\* A WHERE predicate that takes a row matching any one of the filters given.
WhereAnyFilter(r, f) ==
  /\ r.trashed = 0
  /\ r.type = 0
  /\ \/ f.tags = <<>> /\ f.projects = <<>> /\ f.areas = <<>>
     \/ f.tags # <<>> /\ \E t \in Range(r.tags) : t \in Range(f.tags)
     \/ f.projects # <<>> /\ InList(r.project, f.projects)
     \/ f.areas # <<>> /\ (InList(r.area, f.areas) \/ InList(r.project_area, f.areas))
  /\ tagImported \notin Range(r.tags)

\* A WHERE predicate whose area filter looks at the project's area only when
\* the row has no area of its own.
WhereOwnAreaFirst(r, f) ==
  /\ r.trashed = 0
  /\ r.type = 0
  /\ (f.tags # <<>> => \E t \in Range(r.tags) : t \in Range(f.tags))
  /\ (f.projects # <<>> => InList(r.project, f.projects))
  /\ (f.areas # <<>> => IF r.area # Null THEN InList(r.area, f.areas)
                       ELSE InList(r.project_area, f.areas))
  /\ tagImported \notin Range(r.tags)

\* A WHERE predicate without the standing clauses on trashed, type and the
\* tag 'imported'.
WhereFiltersOnly(r, f) ==
  /\ (f.tags # <<>> => \E t \in Range(r.tags) : t \in Range(f.tags))
  /\ (f.projects # <<>> => InList(r.project, f.projects))
  /\ (f.areas # <<>> => (InList(r.area, f.areas) \/ InList(r.project_area, f.areas)))

\* The WHERE predicate buildWhereClausesAndParams builds, on one joined row.
WhereMatches(r, f) ==
  /\ r.trashed = 0
  /\ r.type = 0
  /\ (f.tags # <<>> => \E t \in Range(r.tags) : t \in Range(f.tags))
  /\ (f.projects # <<>> => InList(r.project, f.projects))
  /\ (f.areas # <<>> => (InList(r.area, f.areas) \/ InList(r.project_area, f.areas)))
  /\ tagImported \notin Range(r.tags)

\* ORDER BY TMTask.stopDate: NULL first, then ascending
StopDateLeq(a, b) ==
  \/ a.stopDate = Null
  \/ /\ b.stopDate # Null
     /\ \/ a.stopDate.whole < b.stopDate.whole
        \/ /\ a.stopDate.whole = b.stopDate.whole
           /\ a.stopDate.frac <= b.stopDate.frac

\* A query without GROUP BY TMTask.uuid: the LEFT JOIN on TMTaskTag gives a
\* row one result row for each of its tags.
executeQueryUngrouped(table, f) ==
  LET hit   == { r \in table : WhereMatches(r, f) }
      pairs == { <<r, k>> : r \in hit, k \in 1..2 }
      join  == { pr \in pairs : pr[2] = 1 \/ pr[2] <= Len(pr[1].tags) }
      n     == Cardinality(join)
  IN { [i \in 1..n |-> q[i][1]] :
         q \in { s \in [1..n -> join] :
                   /\ \A i, j \in 1..n : i # j => s[i] # s[j]
                   /\ \A i, j \in 1..n : i < j => StopDateLeq(s[i][1], s[j][1]) } }

\* The result sets executeQuery can return for the table: one row per uuid
\* (GROUP BY), in stopDate order; rows with equal stopDate come in any order.
executeQuery(table, f) ==
  LET hit == { r \in table : WhereMatches(r, f) }
      n   == Cardinality(hit)
  IN { q \in [1..n -> hit] :
         /\ \A i, j \in 1..n : i # j => q[i] # q[j]
         /\ \A i, j \in 1..n : i < j => StopDateLeq(q[i], q[j]) }

\* A has that never finds the key.
hasNever(cache, uuid) == FALSE

\* CacheService.has
has(cache, uuid) == uuid \in DOMAIN cache

\* getTasks without the cache filter.
FilterNothing(rows, cache) == rows

\* allRows.filter(row => !pluginCache.has(row.uuid))
RECURSIVE FilterUncached(_, _)
FilterUncached(rows, cache) ==
  IF rows = <<>> THEN <<>>
  ELSE IF has(cache, Head(rows).uuid) THEN FilterUncached(Tail(rows), cache)
       ELSE <<Head(rows)>> \o FilterUncached(Tail(rows), cache)

\* getTasks: the possible results for a table, settings and cache
getTasks(table, st, cache) ==
  { FilterUncached(q, cache) : q \in executeQuery(table, prepareFilters(st)) }

\* A query that takes every status but 0 for checked.
checklistNonZeroChecked(taskUuid) ==
  LET items == { c \in TMChecklistItem : c.task = taskUuid }
      n     == Cardinality(items)
      q     == CHOOSE s \in [1..n -> items] :
                 \A i, j \in 1..n : i < j => s[i].index < s[j].index
  IN [i \in 1..n |-> [title |-> q[i].title, checked |-> (q[i].status # 0)]]

\* getChecklistItemsByTask: ORDER BY "index" ASC, checked iff status = 3
getChecklistItemsByTask(taskUuid) ==
  LET items == { c \in TMChecklistItem : c.task = taskUuid }
      n     == Cardinality(items)
      q     == CHOOSE s \in [1..n -> items] :
                 \A i, j \in 1..n : i < j => s[i].index < s[j].index
  IN [i \in 1..n |-> [title |-> q[i].title, checked |-> (q[i].status = 3)]]

\* The uuids the query selects with an empty cache: the eligible records.
Eligible(table, st) == { r \in table : WhereMatches(r, prepareFilters(st)) }

\* --------------------------------------------------------- NoteWriterService
\* GROUP_CONCAT(TMTag.title, ', '): NULL when the row has no tag
RECURSIVE JoinTags(_)
JoinTags(titles) ==
  IF Len(titles) = 1 THEN Head(titles)
  ELSE Head(titles) \o <<",", " ">> \o JoinTags(Tail(titles))

GroupConcat(titles) == IF titles = <<>> THEN Null ELSE Some(JoinTags(titles))

\* Array.from(new Set(tags)): the first occurrence of each element, in order
RECURSIVE Dedupe(_)
Dedupe(xs) ==
  IF xs = <<>> THEN <<>>
  ELSE LET rest == Dedupe(SubSeq(xs, 1, Len(xs) - 1))
           last == xs[Len(xs)]
       IN IF last \in Range(rest) THEN rest ELSE rest \o <<last>>

\* x || dflt, on strings
OrElse(x, dflt) == IF x = <<>> THEN dflt ELSE x

\* a || b, on converted dates
DateOrElse(a, b) == IF a.valid THEN a ELSE b

\* The tags of the note: the row's own, the project, the area (the project's
\* area when the row has none), the custom tags.
TagsWithProject(own, row, st) ==
  IF st.includeProjectAsTag /\ row.project # Null /\ row.project.val # <<>>
  THEN own \o <<row.project.val>> ELSE own

TagsWithArea(tags, row, st) ==
  IF ~st.includeAreaAsTag THEN tags
  ELSE IF row.area # Null /\ row.area.val # <<>> THEN tags \o <<row.area.val>>
  ELSE IF row.project_area # Null /\ row.project_area.val # <<>>
       THEN tags \o <<row.project_area.val>>
  ELSE tags

TagsWithCustom(tags, st) ==
  IF st.customTags # <<>> THEN tags \o SplitTrimmed(st.customTags) ELSE tags

OwnTags(concat) == IF concat = Null THEN <<>> ELSE SplitTrimmed(concat.val)

NoteTags(row, st) ==
  DropEmpty(Dedupe(
    TagsWithCustom(TagsWithArea(TagsWithProject(OwnTags(GroupConcat(row.tags)),
                                                row, st), row, st), st)))

\* prepareContent: the note, as its metadata block and its sections.
prepareContent(row, st, checklist) ==
  [t3_uuid         |-> row.uuid,
   t3_link         |-> <<"things:///show?id=">> \o row.uuid,
   t3_created_date |-> DateOrElse(convertThingsDate(row.creationDate),
                                  convertThingsDate(row.startDate)),
   t3_start_date   |-> convertThingsDate(row.startDate),
   t3_end_date     |-> convertThingsDate(row.stopDate),
   t3_deadline     |-> convertThingsDate(row.deadline),
   t3_status       |-> IF row.status = 0 THEN <<>> ELSE <<row.status>>,
   tags            |-> NoteTags(row, st),
   noteHeader      |-> OrElse(st.noteSectionHeader, <<"N","o","t","e">>),
   title           |-> row.title,
   details         |-> IF ~IsBlank(row.notes)
                       THEN <<OrElse(st.detailsSectionHeader,
                                     <<"D","e","t","a","i","l","s">>), row.notes>>
                       ELSE <<>>,
   checklist       |-> IF checklist # <<>>
                       THEN <<OrElse(st.checklistSectionHeader,
                                <<"C","h","e","c","k","l","i","s","t">>), checklist>>
                       ELSE <<>>]

\* normalizePath of obsidian: runs of slashes become one slash, leading and
\* trailing slashes go, and the empty path is "/".
RECURSIVE CollapseSlashes(_)
CollapseSlashes(s) ==
  IF s = <<>> THEN <<>>
  ELSE IF Head(s) = "/" /\ Len(s) > 1 /\ s[2] = "/" THEN CollapseSlashes(Tail(s))
       ELSE <<Head(s)>> \o CollapseSlashes(Tail(s))

StripLeadingSlash(c) == IF c # <<>> /\ Head(c) = "/" THEN Tail(c) ELSE c
StripTrailingSlash(c) ==
  IF c # <<>> /\ c[Len(c)] = "/" THEN SubSeq(c, 1, Len(c) - 1) ELSE c

normalizePath(path) ==
  OrElse(StripTrailingSlash(StripLeadingSlash(CollapseSlashes(path))), <<"/">>)

\* The file name: date stamp, sanitized title, uuid prefix, extension.
FileName(dateStr, title, uuid) ==
  (IF dateStr # <<>> THEN dateStr \o <<"_">> ELSE <<>>)
  \o Slice(CollapseSpaces(StripUnsafe(title)), TitleMaxLen)
  \o <<"_">> \o Slice(uuid, UuidPrefixLen) \o <<".", "m", "d">>

InFolder(folder, filename) ==
  [filePath |-> IF folder # <<>> THEN folder \o <<"/">> \o filename ELSE filename,
   folder   |-> folder]

\* A prepareFilePath that takes the title as it is unless it is empty.
prepareFilePathUntrimmed(row, st) ==
  InFolder(IF st.destinationFolder # <<>>
           THEN normalizePath(st.destinationFolder) ELSE <<>>,
           FileName(IF ~Falsy(row.creationDate) THEN getYYYYMMDD(row.creationDate)
                    ELSE IF ~Falsy(row.startDate) THEN getYYYYMMDD(row.startDate)
                    ELSE <<>>,
                    IF row.title # <<>> THEN row.title
                    ELSE <<"U","n","t","i","t","l","e","d">>,
                    row.uuid))

\* prepareFilePath: the folder and the path of the note of a row.
prepareFilePath(row, st) ==
  InFolder(IF st.destinationFolder # <<>>
           THEN normalizePath(st.destinationFolder) ELSE <<>>,
           FileName(IF ~Falsy(row.creationDate) THEN getYYYYMMDD(row.creationDate)
                    ELSE IF ~Falsy(row.startDate) THEN getYYYYMMDD(row.startDate)
                    ELSE <<>>,
                    IF ~IsBlank(row.title) THEN row.title
                    ELSE <<"U","n","t","i","t","l","e","d">>,
                    row.uuid))

\* isValidFilePath
isValidFilePath(filePath) ==
  ~ \/ filePath = <<>>
    \/ Contains(filePath, <<"u","n","d","e","f","i","n","e","d">>)
    \/ Contains(filePath, <<"n","u","l","l">>)

\* ------------------------------------------------------------- CacheService
EmptyCache == <<>>

\* imported.json: exists, parses (JSON.parse accepts its text), json, the kind
\* of value its text is ("object", "null", "number" or "array"), and data,
\* the entries its text holds
NoCacheFile ==
  [exists |-> FALSE, parses |-> FALSE, json |-> "object", data |-> EmptyCache]

\* What load() gets from imported.json: {} when the file is absent, and {} too
\* when JSON.parse throws on its text.
CacheOnDisk(file) ==
  IF file.exists /\ file.parses THEN file.data ELSE EmptyCache

\* A load that takes the entries of the file whatever happened.
loadUnchecked(file, readable) == file.data

\* load(): this.cache = JSON.parse(data); {} when adapter.exists or
\* adapter.read throws (readable = FALSE)
load(file, readable) == IF readable THEN CacheOnDisk(file) ELSE EmptyCache

\* add(uuid, entry): this.cache[uuid] = entry
add(cache, uuid, entry) == (uuid :> entry) @@ cache

\* getAll(): { ...this.cache }, an object with the keys and entries of the cache
getAll(cache) == [k \in DOMAIN cache |-> cache[k]]

\* save(): the file is replaced by the serialized in-memory cache
save(cache) ==
  [exists |-> TRUE, parses |-> TRUE, json |-> "object", data |-> cache]

\* What this.cache is after load(): whatever JSON.parse returned, which is
\* not looked at, and {} in the else and catch branches.
loadedType(file, readable) ==
  IF readable /\ file.exists /\ file.parses THEN file.json ELSE "object"

\* JSON.stringify of a value that is not a plain object: null and a number
\* as they are, an array without its named properties.
saveOther(json) ==
  [exists |-> TRUE, parses |-> TRUE, json |-> json, data |-> EmptyCache]

\* ------------------------------------------------------------ DbPathService
Undefined == [undefined |-> TRUE]

\* s.startsWith(prefix)
startsWith(s, prefix) ==
  Len(s) >= Len(prefix) /\ SubSeq(s, 1, Len(prefix)) = prefix

\* the pieces of a path between its slashes
RECURSIVE Segments(_)
Segments(p) ==
  IF \A i \in 1..Len(p) : p[i] # "/"
  THEN <<p>>
  ELSE LET k == CHOOSE i \in 1..Len(p) :
                  p[i] = "/" /\ \A j \in 1..(i - 1) : p[j] # "/"
       IN <<SubSeq(p, 1, k - 1)>> \o Segments(SubSeq(p, k + 1, Len(p)))

\* path.normalize on the segments: "" and "." vanish, ".." takes the segment
\* before it away (above the root of an absolute path it vanishes)
RECURSIVE NormalizeSegments(_, _, _)
NormalizeSegments(segs, acc, isAbsolute) ==
  IF segs = <<>> THEN acc
  ELSE IF Head(segs) \in {<<>>, <<".">>}
       THEN NormalizeSegments(Tail(segs), acc, isAbsolute)
  ELSE IF Head(segs) = <<".", ".">>
       THEN IF acc # <<>> /\ acc[Len(acc)] # <<".", ".">>
            THEN NormalizeSegments(Tail(segs), SubSeq(acc, 1, Len(acc) - 1), isAbsolute)
            ELSE IF isAbsolute
                 THEN NormalizeSegments(Tail(segs), acc, isAbsolute)
                 ELSE NormalizeSegments(Tail(segs), Append(acc, Head(segs)), isAbsolute)
  ELSE NormalizeSegments(Tail(segs), Append(acc, Head(segs)), isAbsolute)

\* segments joined by "/"
RECURSIVE JoinSegments(_)
JoinSegments(segs) ==
  IF segs = <<>> THEN <<>>
  ELSE IF Len(segs) = 1 THEN Head(segs)
  ELSE Head(segs) \o <<"/">> \o JoinSegments(Tail(segs))

\* path.normalize (posix) of a non-empty path with its body already normalized
NormalizedPath(p, body) ==
  IF p[1] = "/"
  THEN <<"/">> \o body \o (IF body # <<>> /\ p[Len(p)] = "/" THEN <<"/">> ELSE <<>>)
  ELSE IF body = <<>>
       THEN (IF p[Len(p)] = "/" THEN <<".", "/">> ELSE <<".">>)
       ELSE body \o (IF p[Len(p)] = "/" THEN <<"/">> ELSE <<>>)

normalize(p) ==
  IF p = <<>> THEN <<".">>
  ELSE NormalizedPath(p, JoinSegments(NormalizeSegments(Segments(p), <<>>, p[1] = "/")))

\* path.join(...parts): the non-empty parts joined by "/", then normalized
join(parts) == normalize(JoinSegments(DropEmpty(parts)))

\* the last segment of a path, trailing slashes aside
basename(p) ==
  LET segs == DropEmpty(Segments(p))
  IN IF segs = <<>> THEN <<>> ELSE segs[Len(segs)]

\* the extension of a file name: from its last "." on, "" when it has none or
\* only a leading one
ExtOfName(name) ==
  IF name = <<".", ".">> \/ \A i \in 2..Len(name) : name[i] # "."
  THEN <<>>
  ELSE SubSeq(name, CHOOSE i \in 2..Len(name) :
                      name[i] = "." /\ \A j \in (i + 1)..Len(name) : name[j] # ".",
              Len(name))

\* path.extname
extname(p) == ExtOfName(basename(p))

\* The file system DbPathService looks at: normalized absolute path -> node.
\* A file has bytes (its content from offset 0), readable (R_OK for this
\* process) and mtimeMs; a directory has entries, the names readdirSync gives,
\* in its order.
FileNode(bytes, readable, mtimeMs) ==
  [type |-> "file", bytes |-> bytes, readable |-> readable,
   mtimeMs |-> mtimeMs, entries |-> <<>>]

DirNode(entries) ==
  [type |-> "dir", bytes |-> <<>>, readable |-> TRUE, mtimeMs |-> 0,
   entries |-> entries]

\* fs.existsSync(p)
existsSync(fs, p) == p \in DOMAIN fs

\* fs.statSync(p).isDirectory(), of a path that exists
isDirectory(fs, p) == fs[p].type = "dir"

\* the byte 0
NUL == "NUL"

\* 'SQLite format 3\0'
SQLiteHeader ==
  <<"S","Q","L","i","t","e"," ","f","o","r","m","a","t"," ","3", NUL>>

\* Buffer.alloc(16) and fs.readSync(fd, buffer, 0, 16, 0): the buffer starts
\* as zeros and receives the bytes the file has, up to 16 of them
readSync(bytes) ==
  [i \in 1..HeaderLen |-> IF i <= Len(bytes) THEN bytes[i] ELSE NUL]

\* _isValidSQLiteFile: openSync throws on a file this process may not read and
\* readSync on a directory; both are caught and give false
_isValidSQLiteFile(fs, filePath) ==
  /\ existsSync(fs, filePath)
  /\ extname(filePath) = <<".","s","q","l","i","t","e">>
  /\ fs[filePath].type = "file"
  /\ fs[filePath].readable
  /\ readSync(fs[filePath].bytes) = SQLiteHeader

\* _hasReadPermission: accessSync(filePath, R_OK) does not throw
_hasReadPermission(fs, filePath) ==
  existsSync(fs, filePath) /\ fs[filePath].readable

\* _isUsableSQLiteFile
_isUsableSQLiteFile(fs, filePath) ==
  _isValidSQLiteFile(fs, filePath) /\ _hasReadPermission(fs, filePath)

\* os.homedir()
homedir == <<"/","h">>

\* the path _resolveFromConfiguredPath validates: trimmed, and with a leading
\* "~" replaced by joining the rest to the home directory
ExpandedPath(dbPath) ==
  IF startsWith(dbPath, <<"~">>)
  THEN join(<<homedir, SubSeq(dbPath, 2, Len(dbPath))>>)
  ELSE dbPath

UsableOrUndefined(fs, filePath) ==
  IF _isUsableSQLiteFile(fs, filePath) THEN Some(filePath) ELSE Undefined

\* A configured path validated as typed, without trim().
resolveUntrimmed(fs, configuredPath) ==
  UsableOrUndefined(fs, ExpandedPath(configuredPath))

\* _resolveFromConfiguredPath
_resolveFromConfiguredPath(fs, configuredPath) ==
  UsableOrUndefined(fs, ExpandedPath(Trim(configuredPath)))

\* names.filter(d => d.startsWith(prefix))
RECURSIVE FilterPrefix(_, _)
FilterPrefix(names, prefix) ==
  IF names = <<>> THEN <<>>
  ELSE IF startsWith(Head(names), prefix)
       THEN <<Head(names)>> \o FilterPrefix(Tail(names), prefix)
       ELSE FilterPrefix(Tail(names), prefix)

ThingsDataPrefix == <<"T","h","i","n","g","s","D","a","t","a","-">>
MainSqlite == <<"m","a","i","n",".","s","q","l","i","t","e">>

\* The loop of _resolveBestThingsDataDir and of _resolveFromFallback over the
\* candidate paths: a usable candidate replaces the best one when its mtimeMs
\* is greater than bestTime, which starts at 0.
RECURSIVE BestCandidate(_, _, _, _)
BestCandidate(fs, candidates, best, bestTime) ==
  IF candidates = <<>> THEN best
  ELSE IF /\ _isUsableSQLiteFile(fs, Head(candidates))
          /\ fs[Head(candidates)].mtimeMs > bestTime
       THEN BestCandidate(fs, Tail(candidates), Some(Head(candidates)),
                          fs[Head(candidates)].mtimeMs)
       ELSE BestCandidate(fs, Tail(candidates), best, bestTime)

\* _resolveBestThingsDataDir
_resolveBestThingsDataDir(fs, subdirs, parentDir) ==
  BestCandidate(fs,
                [k \in 1..Len(subdirs) |-> join(<<parentDir, subdirs[k], MainSqlite>>)],
                Undefined, 0)

\* _resolveFromDirectory once the ThingsData-* subfolders are listed
ResolveFromSubdirs(fs, trimmedDir, subdirs) ==
  IF subdirs = <<>> THEN Undefined
  ELSE IF Len(subdirs) = 1
       THEN UsableOrUndefined(fs, join(<<trimmedDir, subdirs[1], MainSqlite>>))
       ELSE _resolveBestThingsDataDir(fs, subdirs, trimmedDir)

DirectoryListed(fs, trimmedDir) ==
  IF ~existsSync(fs, trimmedDir) \/ ~isDirectory(fs, trimmedDir)
  THEN Undefined
  ELSE ResolveFromSubdirs(fs, trimmedDir,
                          FilterPrefix(fs[trimmedDir].entries, ThingsDataPrefix))

\* _resolveFromDirectory
_resolveFromDirectory(fs, directory) == DirectoryListed(fs, Trim(directory))

\* What a call gives when an fs call in it throws and nothing catches it.
Thrown == [thrown |-> TRUE]

groupContainers ==
  join(<<homedir, <<"L","i","b","r","a","r","y">>,
         <<"G","r","o","u","p"," ","C","o","n","t","a","i","n","e","r","s">>>>)

ThingsMacPrefix ==
  <<"J","L","M","P","Q","H","K","8","6","H",".","c","o","m",".",
    "c","u","l","t","u","r","e","d","c","o","d","e",".",
    "T","h","i","n","g","s","M","a","c">>

ThingsDatabaseDir ==
  <<"T","h","i","n","g","s"," ","D","a","t","a","b","a","s","e",".",
    "t","h","i","n","g","s","d","a","t","a","b","a","s","e">>

\* fs.readdirSync(p) throws when p is missing or is not a directory
readdirThrows(fs, p) == ~existsSync(fs, p) \/ ~isDirectory(fs, p)

\* the candidates of _resolveFromFallback: main.sqlite of every subfolder whose
\* 'Things Database.thingsdatabase' exists and is a directory
RECURSIVE FallbackCandidates(_, _, _)
FallbackCandidates(fs, thingsContainer, subdirs) ==
  IF subdirs = <<>> THEN <<>>
  ELSE (IF /\ existsSync(fs, join(<<thingsContainer, Head(subdirs), ThingsDatabaseDir>>))
           /\ isDirectory(fs, join(<<thingsContainer, Head(subdirs), ThingsDatabaseDir>>))
        THEN <<join(<<thingsContainer, Head(subdirs), ThingsDatabaseDir, MainSqlite>>)>>
        ELSE <<>>)
       \o FallbackCandidates(fs, thingsContainer, Tail(subdirs))

\* _resolveFromFallback once the group container is chosen
FallbackInContainer(fs, thingsContainer) ==
  IF readdirThrows(fs, thingsContainer) THEN Thrown
  ELSE IF FilterPrefix(fs[thingsContainer].entries, ThingsDataPrefix) = <<>>
       THEN Undefined
       ELSE BestCandidate(fs,
              FallbackCandidates(fs, thingsContainer,
                FilterPrefix(fs[thingsContainer].entries, ThingsDataPrefix)),
              Undefined, 0)

FallbackInGroup(fs, thingsDirs) ==
  IF thingsDirs = <<>> THEN Undefined
  ELSE FallbackInContainer(fs, join(<<groupContainers, thingsDirs[1]>>))

\* _resolveFromFallback
_resolveFromFallback(fs) ==
  IF readdirThrows(fs, groupContainers) THEN Thrown
  ELSE FallbackInGroup(fs, FilterPrefix(fs[groupContainers].entries, ThingsMacPrefix))

\* new DbPathService(configuredPath, directory), step by step through
\* _resolveDbPath.  pc: the branch _resolveDbPath is about to take, then
\* "resolved" (this.dbPath is set) or "threw" (the constructor threw: err is
\* "noPath" for its own Error, "fs" for an error of an fs call).
\* tried: history, the branches taken so far, in order.
NewPathService(configuredPath, directory) ==
  [pc |-> "configured", configuredPath |-> configuredPath,
   directory |-> directory, dbPath |-> Undefined, err |-> "none",
   tried |-> <<>>]

\* no DbPathService is under construction
NoPathService ==
  [pc |-> "none", configuredPath |-> <<>>, directory |-> <<>>,
   dbPath |-> Undefined, err |-> "none", tried |-> <<>>]

\* a CacheService that was not constructed
\* No call of convertThingsDate is under way.
NoConversion == [pc |-> "none", abs |-> Null, iso |-> NoDate]

\* What a caller of getAll() holds: obj, the object returned, as the caller
\* has changed it since; shared, the keys under which obj still has the very
\* entry object that the cache has.
NothingGot == [held |-> FALSE, obj |-> EmptyCache, shared |-> {}]

NoService ==
  [pc |-> "none", cache |-> EmptyCache, shape |-> "object", last |-> "none",
   failed |-> FALSE, added |-> EmptyCache, fileBefore |-> NoCacheFile,
   got |-> NothingGot]

\* ------------------------------------------------------------------- state
Procs == {1, 2}
\* The specification Spec runs one command at a time, as process 1.
SeqProcs == {1}

VARIABLES
  tasks,        \* the TMTask rows of the Things3 database file
  settings,     \* plugin.settings
  now,          \* the wall clock when new Date() last read it
  vaultFiles,   \* the notes of the vault: path -> content
  vaultFolders, \* the folders of the vault
  cacheFile,    \* imported.json: [exists, parses, data]
  dbFileWrites, \* how many times the database file was written (capped at 1)
  run,          \* per process: the runImporter / rebuildCacheOnly call in flight
  lastOp,       \* history: the last command that ended, or "crash", "delete"
  nRuns,        \* history: commands started
  disk,         \* the file system a DbPathService under construction sees
  pathService,  \* a DbPathService under construction
  svc,          \* a CacheService on its own
  conv          \* a call of convertThingsDate: [pc, abs, iso]

\* the services exercised on their own, which the commands leave alone
serviceVars == <<disk, pathService, svc, conv>>

vars == <<tasks, settings, now, vaultFiles, vaultFolders, cacheFile,
          dbFileWrites, run, lastOp, nRuns, disk, pathService, svc, conv>>

\* pc: where the call is.  kind: "import" or "rebuild".  dbOpen: the sql.js
\* handle is open.  closes: db.close() calls.  hasCache: the CacheService was
\* constructed; cache: its in-memory mapping.  rows, i: the rows getTasks
\* returned and the one being written.  err: what made the call reject.
\* History of the call: queried (the cache getTasks was given), lostCache (a
\* load() fell back to {} while imported.json held entries), results (per row
\* written or skipped, in order), created
\* and modified (paths vault.create / vault.modify succeeded on), startCache and
\* startFiles (imported.json and the vault when the call began), prev (lastOp
\* when the call began), folderRaced (a createFolder threw and the folder was
\* there at the second lookup).
IdleRun ==
  [pc |-> "idle", kind |-> "none", dbOpen |-> FALSE, closes |-> 0,
   hasCache |-> FALSE, cache |-> EmptyCache, rows |-> <<>>, i |-> 0,
   err |-> "none", queried |-> EmptyCache, lostCache |-> FALSE,
   results |-> <<>>, created |-> {}, modified |-> {},
   startCache |-> EmptyCache, startFiles |-> <<>>, prev |-> "none",
   folderRaced |-> FALSE]

Active(p) == run[p].pc \notin {"idle", "done", "failed"}

Init ==
  /\ tasks \in Databases
  /\ settings \in SettingsPool
  /\ now = 0
  /\ vaultFiles = <<>>
  /\ vaultFolders = {}
  /\ cacheFile = NoCacheFile
  /\ dbFileWrites = 0
  /\ run = [p \in Procs |-> IdleRun]
  /\ lastOp = "none"
  /\ nRuns = 0
  /\ disk = <<>>
  /\ pathService = NoPathService
  /\ svc = NoService
  /\ conv = NoConversion

\* A call that ends by throwing without closing the handle.
RejectedUnclosed(r, why) == [r EXCEPT !.pc = "failed", !.err = why]

\* The call ends by throwing: the finally block closes an open handle.
Rejected(r, why) ==
  [r EXCEPT !.pc = "failed", !.err = why,
            !.closes = IF r.dbOpen THEN r.closes + 1 ELSE r.closes,
            !.dbOpen = FALSE]

\* ------------------------------------------------- runImporter, rebuildCacheOnly
\* The command starts: new DbPathService(settings.databasePath) resolves the
\* path or throws, before anything else happens.
Start(p, kind) ==
  /\ ~Active(p)
  /\ nRuns < MaxRuns
  /\ nRuns' = nRuns + 1
  /\ \E resolved \in BOOLEAN :
       LET r == [IdleRun EXCEPT !.kind = kind,
                                !.startCache = CacheOnDisk(cacheFile),
                                !.startFiles = vaultFiles,
                                !.prev = lastOp]
       IN /\ run' = [run EXCEPT ![p] = IF resolved THEN [r EXCEPT !.pc = "open"]
                                       ELSE Rejected(r, "resolve")]
          /\ lastOp' = IF resolved THEN lastOp ELSE "failed"
  /\ UNCHANGED <<tasks, settings, now, vaultFiles, vaultFolders, cacheFile,
                 dbFileWrites>>
  /\ UNCHANGED serviceVars

\* An openDatabase that runs after the cache was constructed and loaded.
OpenDatabaseAfterCache(p) ==
  /\ run[p].pc = "open"
  /\ \E ok \in BOOLEAN :
       /\ run' = [run EXCEPT ![p] =
                    IF ok THEN [@ EXCEPT !.pc = "load", !.dbOpen = TRUE,
                                         !.hasCache = TRUE]
                    ELSE Rejected([@ EXCEPT !.hasCache = TRUE,
                                            !.cache = CacheOnDisk(cacheFile)],
                                  "open")]
       /\ lastOp' = IF ok THEN lastOp ELSE "failed"
  /\ UNCHANGED <<tasks, settings, now, vaultFiles, vaultFolders, cacheFile,
                 dbFileWrites, nRuns>>
  /\ UNCHANGED serviceVars

\* await sqliteProvider.openDatabase(dbPath, wasmUrl): a Database, or it throws
\* (the !db branch is never taken).  Then new CacheService(plugin).
OpenDatabase(p) ==
  /\ run[p].pc = "open"
  /\ \E ok \in BOOLEAN :
       /\ run' = [run EXCEPT ![p] =
                    IF ok THEN [@ EXCEPT !.pc = "load", !.dbOpen = TRUE,
                                         !.hasCache = TRUE]
                    ELSE Rejected(@, "open")]
       /\ lastOp' = IF ok THEN lastOp ELSE "failed"
  /\ UNCHANGED <<tasks, settings, now, vaultFiles, vaultFolders, cacheFile,
                 dbFileWrites, nRuns>>
  /\ UNCHANGED serviceVars

\* await pluginCache.load()
LoadCache(p) ==
  /\ run[p].pc = "load"
  /\ \E readable \in BOOLEAN :
       run' = [run EXCEPT ![p] =
                 [@ EXCEPT !.pc = "query", !.cache = load(cacheFile, readable),
                           !.lostCache = (load(cacheFile, readable)
                                            # CacheOnDisk(cacheFile))]]
  /\ UNCHANGED <<tasks, settings, now, vaultFiles, vaultFolders, cacheFile,
                 dbFileWrites, lastOp, nRuns>>
  /\ UNCHANGED serviceVars

\* new Date(): the clock does not run backwards
Clock == now..MaxClock

\* A loop that stops after the first row.
AddHead(cache, rows, at) ==
  IF rows = <<>> THEN cache
  ELSE add(cache, Head(rows).uuid, [importedAt |-> at, filePath |-> <<>>])

\* rebuildCacheOnly's loop: pluginCache.add(row.uuid, {importedAt, filePath: ''})
RECURSIVE AddAll(_, _, _)
AddAll(cache, rows, at) ==
  IF rows = <<>> THEN cache
  ELSE AddAll(add(cache, Head(rows).uuid, [importedAt |-> at, filePath |-> <<>>]),
              Tail(rows), at)

\* thingsService.getTasks(db, settings, pluginCache); a query that throws ends
\* the call through the finally block.  rebuildCacheOnly adds every row to the
\* in-memory cache at once.
GetTasks(p) ==
  /\ run[p].pc = "query"
  /\ \/ /\ run[p].kind = "import"
        /\ \E rows \in getTasks(tasks, settings, run[p].cache) :
             run' = [run EXCEPT ![p] = [@ EXCEPT !.pc = "row", !.rows = rows, !.i = 1,
                                                 !.queried = run[p].cache]]
        /\ UNCHANGED <<lastOp, now>>
     \/ /\ run[p].kind = "rebuild"
        /\ \E rows \in getTasks(tasks, settings, run[p].cache), t \in Clock :
             /\ now' = t
             /\ run' = [run EXCEPT ![p] =
                          [@ EXCEPT !.pc = "rsave", !.rows = rows,
                                    !.queried = run[p].cache,
                                    !.cache = AddAll(@, rows, t)]]
        /\ UNCHANGED lastOp
     \/ /\ run' = [run EXCEPT ![p] = Rejected(@, "query")]
        /\ lastOp' = "failed"
        /\ UNCHANGED now
  /\ UNCHANGED <<tasks, settings, vaultFiles, vaultFolders, cacheFile,
                 dbFileWrites, nRuns>>
  /\ UNCHANGED serviceVars

\* ------------------------------------------------------------------ writeNote
CurrentRow(p) == run[p].rows[run[p].i]

\* writeNote returns without writing the cache: the loop goes to the next row
Skipped(r, why) ==
  [r EXCEPT !.pc = "row", !.i = @ + 1, !.results = Append(@, why)]

\* ensureFolder: an empty or existing folder is fine; otherwise createFolder,
\* and when that throws the folder is looked up again before giving up.
ensureFolder(p, folder) ==
  IF folder = <<>> \/ folder \in vaultFolders
  THEN /\ run' = [run EXCEPT ![p] = [@ EXCEPT !.pc = "file"]]
       /\ UNCHANGED vaultFolders
  ELSE \E ok \in BOOLEAN :
         IF ok
         THEN /\ vaultFolders' = vaultFolders \cup {folder}
              /\ run' = [run EXCEPT ![p] = [@ EXCEPT !.pc = "file"]]
         ELSE /\ UNCHANGED vaultFolders
              /\ run' = [run EXCEPT ![p] =
                           IF folder \in vaultFolders
                           THEN [@ EXCEPT !.pc = "file"]
                           ELSE Skipped(@, "folder")]

\* A writeNote that persists the cache entry before the note is written.
EnsureFolderCachingFirst(p) ==
  /\ run[p].pc = "row"
  /\ run[p].i <= Len(run[p].rows)
  /\ ensureFolder(p, prepareFilePath(CurrentRow(p), settings).folder)
  /\ cacheFile' = save(add(CacheOnDisk(cacheFile), CurrentRow(p).uuid,
                           [importedAt |-> now,
                            filePath |-> prepareFilePath(CurrentRow(p),
                                                         settings).filePath]))
  /\ UNCHANGED <<tasks, settings, now, vaultFiles, dbFileWrites, lastOp, nRuns>>
  /\ UNCHANGED serviceVars

\* writeNote up to ensureFolder
EnsureFolder(p) ==
  /\ run[p].pc = "row"
  /\ run[p].i <= Len(run[p].rows)
  /\ ensureFolder(p, prepareFilePath(CurrentRow(p), settings).folder)
  /\ UNCHANGED <<tasks, settings, now, vaultFiles, cacheFile, dbFileWrites,
                 lastOp, nRuns>>
  /\ UNCHANGED serviceVars

\* A createFile that reports success whether or not the write went through.
createFileUnchecked(p, filePath, content) ==
  \E ok \in BOOLEAN :
    /\ vaultFiles' = IF ok THEN (filePath :> content) @@ vaultFiles ELSE vaultFiles
    /\ run' = [run EXCEPT ![p] =
                 IF ok /\ filePath \notin DOMAIN vaultFiles
                 THEN [@ EXCEPT !.pc = "wload", !.created = @ \cup {filePath}]
                 ELSE IF ok
                 THEN [@ EXCEPT !.pc = "wload", !.modified = @ \cup {filePath}]
                 ELSE [@ EXCEPT !.pc = "wload"]]

\* A createFile that never overwrites: an occupied path gets a numbered copy.
createFileBeside(p, filePath, content) ==
  \E ok \in BOOLEAN :
    IF ok
    THEN IF filePath \in DOMAIN vaultFiles
         THEN /\ vaultFiles' = ((filePath \o <<" ", "1">>) :> content) @@ vaultFiles
              /\ run' = [run EXCEPT ![p] =
                           [@ EXCEPT !.pc = "wload",
                                     !.created = @ \cup {filePath \o <<" ", "1">>}]]
         ELSE /\ vaultFiles' = (filePath :> content) @@ vaultFiles
              /\ run' = [run EXCEPT ![p] =
                           [@ EXCEPT !.pc = "wload", !.created = @ \cup {filePath}]]
    ELSE /\ UNCHANGED vaultFiles
         /\ run' = [run EXCEPT ![p] = Skipped(@, "file")]

\* createFile: vault.modify on an existing note, vault.create otherwise;
\* either may throw, which createFile catches.
createFile(p, filePath, content) ==
  \E ok \in BOOLEAN :
    IF ok
    THEN /\ vaultFiles' = (filePath :> content) @@ vaultFiles
         /\ run' = [run EXCEPT ![p] =
                      IF filePath \in DOMAIN vaultFiles
                      THEN [@ EXCEPT !.pc = "wload", !.modified = @ \cup {filePath}]
                      ELSE [@ EXCEPT !.pc = "wload", !.created = @ \cup {filePath}]]
    ELSE /\ UNCHANGED vaultFiles
         /\ run' = [run EXCEPT ![p] = Skipped(@, "file")]

\* A writeNote that creates the file whatever the path is.
CreateUnvalidated(p, filePath, row) ==
  createFile(p, filePath,
             prepareContent(row, settings, getChecklistItemsByTask(row.uuid)))

\* isValidFilePath, then createFile
ValidateAndCreate(p, filePath, row) ==
  IF ~isValidFilePath(filePath)
  THEN /\ run' = [run EXCEPT ![p] = Skipped(@, "path")]
       /\ UNCHANGED vaultFiles
  ELSE createFile(p, filePath,
                  prepareContent(row, settings, getChecklistItemsByTask(row.uuid)))

\* writeNote from isValidFilePath to createFile
CreateFile(p) ==
  /\ run[p].pc = "file"
  /\ ValidateAndCreate(p, prepareFilePath(CurrentRow(p), settings).filePath,
                       CurrentRow(p))
  /\ UNCHANGED <<tasks, settings, now, vaultFolders, cacheFile, dbFileWrites,
                 lastOp, nRuns>>
  /\ UNCHANGED serviceVars

\* await pluginCache.load(); pluginCache.add(uuid, {importedAt, filePath})
WriteNoteAdd(p) ==
  /\ run[p].pc = "wload"
  /\ \E t \in Clock, readable \in BOOLEAN :
       /\ now' = t
       /\ run' = [run EXCEPT ![p] =
                    [@ EXCEPT !.pc = "wsave",
                              !.cache = add(load(cacheFile, readable),
                                            CurrentRow(p).uuid,
                                            [importedAt |-> t,
                                             filePath |-> prepareFilePath(CurrentRow(p),
                                                            settings).filePath]),
                              !.lostCache = @ \/ (load(cacheFile, readable)
                                                    # CacheOnDisk(cacheFile))]]
  /\ UNCHANGED <<tasks, settings, vaultFiles, vaultFolders, cacheFile,
                 dbFileWrites, lastOp, nRuns>>
  /\ UNCHANGED serviceVars

\* await pluginCache.save(): adapter.write may throw, and nothing catches it
\* before runImporter's finally.
WriteNoteSave(p) ==
  /\ run[p].pc = "wsave"
  /\ \E ok \in BOOLEAN :
       IF ok
       THEN /\ cacheFile' = save(run[p].cache)
            /\ run' = [run EXCEPT ![p] =
                         [@ EXCEPT !.pc = "row", !.i = @ + 1,
                                   !.results = Append(@, "written")]]
            /\ UNCHANGED lastOp
       ELSE /\ UNCHANGED cacheFile
            /\ run' = [run EXCEPT ![p] = Rejected(@, "save")]
            /\ lastOp' = "failed"
  /\ UNCHANGED <<tasks, settings, now, vaultFiles, vaultFolders, dbFileWrites,
                 nRuns>>
  /\ UNCHANGED serviceVars

\* After the loop: db.export(), fs.writeFileSync(dbPath, dbBuffer), and the
\* finally block's db.close().
FinishImport(p) ==
  /\ run[p].pc = "row"
  /\ run[p].i > Len(run[p].rows)
  /\ \E ok \in BOOLEAN :
       IF ok
       THEN /\ dbFileWrites' = 1
            /\ run' = [run EXCEPT ![p] =
                         [@ EXCEPT !.pc = "done", !.dbOpen = FALSE,
                                   !.closes = @ + 1]]
            /\ lastOp' = "import"
       ELSE /\ UNCHANGED dbFileWrites
            /\ run' = [run EXCEPT ![p] = Rejected(@, "export")]
            /\ lastOp' = "failed"
  /\ UNCHANGED <<tasks, settings, now, vaultFiles, vaultFolders, cacheFile, nRuns>>
  /\ UNCHANGED serviceVars

\* rebuildCacheOnly: await pluginCache.save(), then the finally block
RebuildSave(p) ==
  /\ run[p].pc = "rsave"
  /\ \E ok \in BOOLEAN :
       IF ok
       THEN /\ cacheFile' = save(run[p].cache)
            /\ run' = [run EXCEPT ![p] =
                         [@ EXCEPT !.pc = "done", !.dbOpen = FALSE,
                                   !.closes = @ + 1]]
            /\ lastOp' = "rebuild"
       ELSE /\ UNCHANGED cacheFile
            /\ run' = [run EXCEPT ![p] = Rejected(@, "save")]
            /\ lastOp' = "failed"
  /\ UNCHANGED <<tasks, settings, now, vaultFiles, vaultFolders, dbFileWrites,
                 nRuns>>
  /\ UNCHANGED serviceVars

\* ------------------------------------------------------------- other commands
\* "Clear Things3 Workflow Cache": cache.load(); cache.clear()
ClearCache ==
  /\ cacheFile' = save(EmptyCache)
  /\ lastOp' = "clear"
  /\ UNCHANGED <<tasks, settings, now, vaultFiles, vaultFolders, dbFileWrites,
                 run, nRuns>>
  /\ UNCHANGED serviceVars

\* ------------------------------------------------------------ the environment
\* The user deletes a note from the vault.
DeleteNote ==
  /\ \E path \in DOMAIN vaultFiles :
       vaultFiles' = [q \in DOMAIN vaultFiles \ {path} |-> vaultFiles[q]]
  /\ lastOp' = "delete"
  /\ UNCHANGED <<tasks, settings, now, vaultFolders, cacheFile, dbFileWrites,
                 run, nRuns>>
  /\ UNCHANGED serviceVars

\* Obsidian quits or reloads while a command is in flight: what is in memory
\* is lost, what is on disk stays.
Crash ==
  /\ \E p \in Procs : Active(p)
  /\ run' = [p \in Procs |-> IdleRun]
  /\ lastOp' = "crash"
  /\ UNCHANGED <<tasks, settings, now, vaultFiles, vaultFolders, cacheFile,
                 dbFileWrites, nRuns>>
  /\ UNCHANGED serviceVars

NoneActive == \A p \in Procs : ~Active(p)

\* One command at a time, the user acting between commands.
Next ==
  \/ \E p \in SeqProcs :
       \/ NoneActive /\ Start(p, "import")
       \/ NoneActive /\ Start(p, "rebuild")
       \/ OpenDatabase(p)
       \/ LoadCache(p)
       \/ GetTasks(p)
       \/ EnsureFolder(p)
       \/ CreateFile(p)
       \/ WriteNoteAdd(p)
       \/ WriteNoteSave(p)
       \/ FinishImport(p)
       \/ RebuildSave(p)
  \/ NoneActive /\ ClearCache
  \/ NoneActive /\ DeleteNote
  \/ Crash

Spec == Init /\ [][Next]_vars

\* Import runs only, any of which Obsidian may quit in the middle of.
NextInterrupt ==
  \/ \E p \in SeqProcs :
       \/ NoneActive /\ Start(p, "import")
       \/ OpenDatabase(p)
       \/ LoadCache(p)
       \/ GetTasks(p)
       \/ EnsureFolder(p)
       \/ CreateFile(p)
       \/ WriteNoteAdd(p)
       \/ WriteNoteSave(p)
       \/ FinishImport(p)
  \/ Crash

SpecInterrupt == Init /\ [][NextInterrupt]_vars

\* ------------------------------------------------------------- observations
pathOf(row) == prepareFilePath(row, settings).filePath

contentOf(row) ==
  prepareContent(row, settings, getChecklistItemsByTask(row.uuid))

Uuids(rows) == { rows[k].uuid : k \in 1..Len(rows) }

EligibleIds == { r.uuid : r \in Eligible(tasks, settings) }

EligiblePaths == { pathOf(r) : r \in Eligible(tasks, settings) }

\* The eligible records whose path isValidFilePath accepts.
ValidRows == { r \in Eligible(tasks, settings) : isValidFilePath(pathOf(r)) }

\* What imported.json holds now.
Persisted == CacheOnDisk(cacheFile)

\* The positions of the rows writeNote wrote and cached.
WrittenAt(r) == { k \in 1..Len(r.results) : r.results[k] = "written" }

WrittenIds(r) == { r.rows[k].uuid : k \in WrittenAt(r) }

WrittenPaths(r) == { pathOf(r.rows[k]) : k \in WrittenAt(r) }

\* The command of process p has just run to its end.
Completed(p, kind) ==
  run[p].pc = "done" /\ run[p].kind = kind /\ lastOp = kind

\* No createFolder, vault write or cache read failed in the call of process p.
NothingFailed(p) ==
  /\ ~run[p].lostCache
  /\ \A k \in 1..Len(run[p].results) : run[p].results[k] \in {"written", "path"}

\* ------------------------------------------------------------------------ C1
\* C1: with N eligible records and an empty cache, a completed Import wrote
\* exactly N documents and left exactly N cache entries.  Stated for the runs
\* in which no createFolder, vault write or cache read failed and the N
\* records have N different paths.
C1_ExactlyNDocumentsAndEntries ==
  \A p \in Procs :
    ( /\ Completed(p, "import")
      /\ run[p].startCache = EmptyCache
      /\ NothingFailed(p)
      /\ Cardinality(EligiblePaths) = Cardinality(EligibleIds) )
      => /\ Cardinality(run[p].created \cup run[p].modified)
              = Cardinality(EligibleIds)
         /\ Cardinality(DOMAIN Persisted) = Cardinality(EligibleIds)

C4_CachedOnlyAfterWritten ==
  \A p \in Procs :
    run[p].kind = "import" =>
      \A k \in 1..Len(run[p].rows) :
        /\ ( /\ run[p].rows[k].uuid \in DOMAIN run[p].cache \cup DOMAIN Persisted
             /\ run[p].rows[k].uuid \notin DOMAIN run[p].startCache )
           => /\ pathOf(run[p].rows[k]) \in run[p].created \cup run[p].modified
              /\ \/ k \in WrittenAt(run[p])
                 \/ /\ k = run[p].i
                    /\ run[p].pc \in {"wsave", "failed"}
                    /\ run[p].rows[k].uuid \notin DOMAIN Persisted
        /\ ( /\ k <= Len(run[p].results)
             /\ run[p].results[k] \in {"folder", "path", "file"}
             /\ run[p].rows[k].uuid \notin DOMAIN run[p].startCache )
           => /\ run[p].rows[k].uuid \notin DOMAIN run[p].cache
              /\ run[p].rows[k].uuid \notin DOMAIN Persisted

\* A completed Import that wrote and cached one record after the file write of
\* another failed, which it left uncached.
C4_Witness ==
  \E p \in Procs :
    /\ Completed(p, "import")
    /\ run[p].results = <<"file", "written">>
    /\ run[p].rows[1].uuid \notin DOMAIN Persisted
    /\ run[p].rows[2].uuid \in DOMAIN Persisted
    /\ pathOf(run[p].rows[2]) \in DOMAIN vaultFiles

\* ------------------------------------------------------------------------ C5
\* C5: when the vault holds the document of every eligible record and the
\* cache has just been cleared, a completed Import creates no document: it
\* overwrites the documents of the records it writes at their paths, each
\* with the content of a record of that path, and leaves the set of paths in
\* the vault as it was.
C5_ReimportOverwritesInPlace ==
  \A p \in Procs :
    ( /\ Completed(p, "import")
      /\ run[p].prev = "clear"
      /\ EligiblePaths \subseteq DOMAIN run[p].startFiles )
      => /\ run[p].startCache = EmptyCache
         /\ Uuids(run[p].rows) = EligibleIds
         /\ run[p].created = {}
         /\ run[p].modified = WrittenPaths(run[p])
         /\ DOMAIN vaultFiles = DOMAIN run[p].startFiles
         /\ \A k \in WrittenAt(run[p]) :
              \E j \in WrittenAt(run[p]) :
                /\ pathOf(run[p].rows[j]) = pathOf(run[p].rows[k])
                /\ vaultFiles[pathOf(run[p].rows[k])] = contentOf(run[p].rows[j])

\* Two documents, the cache cleared, and an Import that overwrote both.
C5_Witness ==
  \E p \in Procs :
    /\ Completed(p, "import")
    /\ run[p].prev = "clear"
    /\ Cardinality(EligiblePaths) = 2
    /\ EligiblePaths = DOMAIN run[p].startFiles
    /\ run[p].modified = EligiblePaths
    /\ DOMAIN vaultFiles = EligiblePaths

\* ------------------------------------------------------------------------ C6
\* C6: RebuildCacheOnly on a fresh vault (no note, no imported.json) with N
\* eligible records ends with imported.json holding exactly the N eligible
\* identifiers, each with the empty output path, and with no note or folder
\* created or modified.
C6_RebuildCachesWithoutWriting ==
  \A p \in Procs :
    ( /\ Completed(p, "rebuild")
      /\ run[p].startCache = EmptyCache
      /\ run[p].startFiles = <<>> )
      => /\ cacheFile.exists
         /\ DOMAIN Persisted = EligibleIds
         /\ Cardinality(DOMAIN Persisted) = Cardinality(Eligible(tasks, settings))
         /\ \A u \in DOMAIN Persisted : Persisted[u].filePath = <<>>
         /\ vaultFiles = <<>>
         /\ run[p].created = {} /\ run[p].modified = {}

\* A rebuild on a fresh vault that cached two records.
C6_Witness ==
  \E p \in Procs :
    /\ Completed(p, "rebuild")
    /\ run[p].startCache = EmptyCache
    /\ run[p].prev = "none"
    /\ vaultFiles = <<>>
    /\ Cardinality(DOMAIN Persisted) = 2

\* ------------------------------------------------------------------------ C7
\* C7: the Things3 database file is never written, by Import or by
\* RebuildCacheOnly.
C7_DatabaseFileNeverWritten == dbFileWrites = 0

\* ------------------------------------------------------------------------ C8
\* C8: a failure while writing one record, the cache update included, ends
\* that record only: an Import that selected rows and has ended, unless the
\* final export is what failed, has gone through every row it selected.
C8_RecordFailureEndsOnlyThatRecord ==
  \A p \in Procs :
    ( /\ run[p].kind = "import"
      /\ run[p].pc \in {"done", "failed"}
      /\ run[p].err \notin {"resolve", "open", "query", "export"} )
      => Len(run[p].results) = Len(run[p].rows)

\* ------------------------------------------------------------------------ C9
\* C9: a command that ended because the database path did not resolve or the
\* database did not open never constructed or loaded a cache, selected no row
\* and wrote no note; right after it the vault and imported.json are what
\* they were when it began.
C9_AbortsBeforeAnyWork ==
  \A p \in Procs :
    (run[p].pc = "failed" /\ run[p].err \in {"resolve", "open"})
      => /\ ~run[p].hasCache
         /\ run[p].cache = EmptyCache
         /\ run[p].rows = <<>>
         /\ run[p].created = {} /\ run[p].modified = {}
         /\ ~run[p].dbOpen /\ run[p].closes = 0
         /\ lastOp = "failed"
            => /\ vaultFiles = run[p].startFiles
               /\ Persisted = run[p].startCache

\* An Import with a record to write that ended when the database did not open.
C9_Witness ==
  \E p \in Procs :
    /\ run[p].pc = "failed"
    /\ run[p].err = "open"
    /\ run[p].kind = "import"
    /\ lastOp = "failed"
    /\ EligibleIds \ DOMAIN run[p].startCache # {}

\* ----------------------------------------------------------------------- C10
\* C10: in a vault that only Import runs have touched, any of them possibly
\* interrupted, an Import that runs to its end with no failed createFolder,
\* vault write or cache read leaves what an uninterrupted one leaves: the
\* notes are exactly one per path of the eligible records with a valid path,
\* each the content of a record of that path, and the cached identifiers are
\* exactly those records' identifiers.
C10_InterruptedImportRecovers ==
  \A p \in Procs :
    (Completed(p, "import") /\ NothingFailed(p))
      => /\ DOMAIN vaultFiles = { pathOf(r) : r \in ValidRows }
         /\ DOMAIN Persisted = { r.uuid : r \in ValidRows }
         /\ \A path \in DOMAIN vaultFiles :
              \E r \in ValidRows :
                pathOf(r) = path /\ vaultFiles[path] = contentOf(r)

\* An Import that completed after an interrupted one had written a note
\* without persisting its cache entry.
C10_Witness ==
  \E p \in Procs :
    /\ Completed(p, "import")
    /\ NothingFailed(p)
    /\ run[p].prev = "crash"
    /\ \E r \in ValidRows :
         /\ pathOf(r) \in DOMAIN run[p].startFiles
         /\ r.uuid \notin DOMAIN run[p].startCache
    /\ Cardinality(ValidRows) = 2
    /\ Cardinality(DOMAIN vaultFiles) = 2
    /\ Cardinality(DOMAIN Persisted) = 2

\* ------------------------------------------- constructing a DbPathService
\* The file systems of the model.  A file is absent or one of FileStates.
Absent ==
  [type |-> "absent", bytes |-> <<>>, readable |-> FALSE, mtimeMs |-> 0,
   entries |-> <<>>]

\* a database file: the header and more
GoodFile(mtimeMs) == FileNode(SQLiteHeader \o <<"x", "y">>, TRUE, mtimeMs)
\* the first 15 bytes of the header and nothing more
ShortFile == FileNode(SubSeq(SQLiteHeader, 1, HeaderLen - 1), TRUE, 1)
\* not a database
OtherFile == FileNode(<<"h","e","l","l","o">>, TRUE, 2)
\* a database file this process may not read
LockedFile == FileNode(SQLiteHeader \o <<"x", "y">>, FALSE, 2)

FileStates ==
  {Absent, ShortFile, LockedFile} \cup { GoodFile(m) : m \in 0..MaxMtime }

\* the node at p, if the file is there
At(p, node) == IF node = Absent THEN <<>> ELSE (p :> node)

sub1 == <<"T","h","i","n","g","s","D","a","t","a","-","1">>
sub2 == <<"T","h","i","n","g","s","D","a","t","a","-","2">>
other == <<"B","a","c","k","u","p">>
thingsDir == <<"/","t">>
homeDb == <<"/","h","/","a",".","s","q","l","i","t","e">>
homeTxt == <<"/","h","/","a",".","t","x","t">>

\* the home directory: a.txt holds a database under another extension
HomeDisks ==
  { (homedir :> DirNode(<<>>)) @@ (homeTxt :> GoodFile(1)) @@ At(homeDb, f) :
      f \in {Absent, GoodFile(1), ShortFile, OtherFile, LockedFile} }

\* /t with its ThingsData-* subfolders listed in the order of entries
SearchDisk(entries, f1, f2) ==
  (thingsDir :> DirNode(entries))
  @@ (IF sub1 \in Range(entries)
      THEN (join(<<thingsDir, sub1>>) :> DirNode(<<MainSqlite>>))
           @@ At(join(<<thingsDir, sub1, MainSqlite>>), f1)
      ELSE <<>>)
  @@ (IF sub2 \in Range(entries)
      THEN (join(<<thingsDir, sub2>>) :> DirNode(<<MainSqlite>>))
           @@ At(join(<<thingsDir, sub2, MainSqlite>>), f2)
      ELSE <<>>)

SearchDisks ==
  {<<>>, SearchDisk(<<>>, Absent, Absent)}
  \cup { SearchDisk(<<other, sub1>>, f1, Absent) : f1 \in FileStates }
  \cup { SearchDisk(e, f1, f2) :
           e \in {<<sub1, sub2>>, <<sub2, sub1>>}, f1 \in FileStates, f2 \in FileStates }

thingsMac == join(<<groupContainers, ThingsMacPrefix>>)

\* ~/Library/Group Containers with the Things container and one subfolder
ContainerDisk(f) ==
  (groupContainers :> DirNode(<<other, ThingsMacPrefix>>))
  @@ (thingsMac :> DirNode(<<sub1>>))
  @@ (join(<<thingsMac, sub1>>) :> DirNode(<<ThingsDatabaseDir>>))
  @@ (join(<<thingsMac, sub1, ThingsDatabaseDir>>) :> DirNode(<<MainSqlite>>))
  @@ At(join(<<thingsMac, sub1, ThingsDatabaseDir, MainSqlite>>), f)

\* no Group Containers at all, none of Things, or the Things container
FallbackDisks ==
  {<<>>, (groupContainers :> DirNode(<<other>>))}
  \cup { ContainerDisk(f) : f \in {Absent, GoodFile(0), GoodFile(MaxMtime), OtherFile} }

Disks == { h @@ s @@ f : h \in HomeDisks, s \in SearchDisks, f \in FallbackDisks }

\* settings.databasePath as typed, and the directory argument
ConfiguredPaths ==
  { <<>>,
    homeDb,
    homeTxt,
    <<"~","/","a",".","s","q","l","i","t","e">>,
    <<"~","a",".","s","q","l","i","t","e">>,
    <<" ","~","/","a",".","s","q","l","i","t","e">>,
    <<"/","h","/","a",".","s","q","l","i","t","e"," ">> }

Directories == { <<>>, thingsDir, <<" ","/","t">> }

InitPath ==
  /\ tasks = {}
  /\ settings \in { st \in SettingsPool : st.filterTags = Str(<<>>) }
  /\ now = 0
  /\ vaultFiles = <<>>
  /\ vaultFolders = {}
  /\ cacheFile = NoCacheFile
  /\ dbFileWrites = 0
  /\ run = [p \in Procs |-> IdleRun]
  /\ lastOp = "none"
  /\ nRuns = 0
  /\ disk \in Disks
  /\ \E c \in ConfiguredPaths, d \in Directories :
       pathService = NewPathService(c, d)
  /\ svc = NoService
  /\ conv = NoConversion

commandVars == <<tasks, settings, now, vaultFiles, vaultFolders, cacheFile,
                 dbFileWrites, run, lastOp, nRuns>>

\* this.dbPath = resolved
Resolved(ps, branch, r) ==
  [ps EXCEPT !.pc = "resolved", !.dbPath = r, !.tried = Append(@, branch)]

\* A resolution that a failing configured path ends.
ResolveConfiguredFinal ==
  /\ pathService.pc = "configured"
  /\ pathService' =
       IF pathService.configuredPath = <<>>
       THEN [pathService EXCEPT !.pc = "directory"]
       ELSE IF _resolveFromConfiguredPath(disk, pathService.configuredPath) # Undefined
            THEN Resolved(pathService, "configured",
                          _resolveFromConfiguredPath(disk, pathService.configuredPath))
            ELSE [pathService EXCEPT !.pc = "threw", !.err = "noPath",
                                     !.tried = Append(@, "configured")]
  /\ UNCHANGED <<commandVars, disk, svc, conv>>

\* _resolveDbPath: if (configuredPath) { ... if (resolved) return resolved; }
ResolveConfigured ==
  /\ pathService.pc = "configured"
  /\ pathService' =
       IF pathService.configuredPath = <<>>
       THEN [pathService EXCEPT !.pc = "directory"]
       ELSE IF _resolveFromConfiguredPath(disk, pathService.configuredPath) # Undefined
            THEN Resolved(pathService, "configured",
                          _resolveFromConfiguredPath(disk, pathService.configuredPath))
            ELSE [pathService EXCEPT !.pc = "directory",
                                     !.tried = Append(@, "configured")]
  /\ UNCHANGED <<commandVars, disk, svc, conv>>

\* _resolveDbPath: if (directory) { ... if (resolved) return resolved; }
ResolveDirectory ==
  /\ pathService.pc = "directory"
  /\ pathService' =
       IF pathService.directory = <<>>
       THEN [pathService EXCEPT !.pc = "fallback"]
       ELSE IF _resolveFromDirectory(disk, pathService.directory) # Undefined
            THEN Resolved(pathService, "directory",
                          _resolveFromDirectory(disk, pathService.directory))
            ELSE [pathService EXCEPT !.pc = "fallback",
                                     !.tried = Append(@, "directory")]
  /\ UNCHANGED <<commandVars, disk, svc, conv>>

\* the constructor throws
Threw(ps, why) ==
  [ps EXCEPT !.pc = "threw", !.err = why, !.tried = Append(@, "fallback")]

\* _resolveDbPath: the fallback, and the constructor's if (!resolved) throw
ResolveFallback ==
  /\ pathService.pc = "fallback"
  /\ pathService' =
       IF _resolveFromFallback(disk) = Thrown THEN Threw(pathService, "fs")
       ELSE IF _resolveFromFallback(disk) = Undefined
            THEN Threw(pathService, "noPath")
            ELSE Resolved(pathService, "fallback", _resolveFromFallback(disk))
  /\ UNCHANGED <<commandVars, disk, svc, conv>>

NextPath == ResolveConfigured \/ ResolveDirectory \/ ResolveFallback

SpecPath == InitPath /\ [][NextPath]_vars

\* ------------------------------------------------------------------ C11..C15
\* the file begins with the 16 bytes of the SQLite header
BeginsWithHeader(bytes) ==
  Len(bytes) >= HeaderLen /\ SubSeq(bytes, 1, HeaderLen) = SQLiteHeader

\* C11: every path a DbPathService resolves to, by whichever of the three
\* branches, names at resolution time a file that exists, has the extension
\* .sqlite, begins with the exact 16-byte SQLite header and is readable by
\* this process.
C11_ResolvedPathIsDatabaseFile ==
  pathService.pc = "resolved" =>
    /\ pathService.dbPath.val \in DOMAIN disk
    /\ disk[pathService.dbPath.val].type = "file"
    /\ extname(pathService.dbPath.val) = <<".","s","q","l","i","t","e">>
    /\ BeginsWithHeader(disk[pathService.dbPath.val].bytes)
    /\ disk[pathService.dbPath.val].readable

\* the branches of _resolveDbPath in the order the claim gives them
BranchOrder == <<"configured", "directory", "fallback">>

\* the branch has something to work on
BranchGiven(b) ==
  IF b = "configured" THEN pathService.configuredPath # <<>>
  ELSE IF b = "directory" THEN pathService.directory # <<>>
  ELSE TRUE

\* what the branch yields on this file system
BranchResult(b) ==
  IF b = "configured"
  THEN _resolveFromConfiguredPath(disk, pathService.configuredPath)
  ELSE IF b = "directory" THEN _resolveFromDirectory(disk, pathService.directory)
  ELSE _resolveFromFallback(disk)

\* the given branches among the first k, in order
RECURSIVE GivenUpTo(_)
GivenUpTo(k) ==
  IF k = 0 THEN <<>>
  ELSE GivenUpTo(k - 1)
       \o (IF BranchGiven(BranchOrder[k]) THEN <<BranchOrder[k]>> ELSE <<>>)

\* C12: resolution tries the configured path, then the search directory, then
\* the fallback, in that order, and returns the validated path of the first
\* branch that succeeds; a configured path that fails validation does not end
\* resolution, the later branches are still tried.
C12_FirstSuccessfulBranchWins ==
  /\ pathService.pc = "resolved" =>
       \E k \in 1..3 :
         /\ BranchGiven(BranchOrder[k])
         /\ BranchResult(BranchOrder[k]) = pathService.dbPath
         /\ pathService.dbPath \notin {Undefined, Thrown}
         /\ \A j \in 1..(k - 1) :
              BranchGiven(BranchOrder[j]) => BranchResult(BranchOrder[j]) = Undefined
         /\ pathService.tried = GivenUpTo(k)
  /\ pathService.pc = "threw" =>
       /\ pathService.tried = GivenUpTo(3)
       /\ \A j \in 1..2 :
            BranchGiven(BranchOrder[j]) => BranchResult(BranchOrder[j]) = Undefined
       /\ BranchResult("fallback") \in {Undefined, Thrown}

\* A configured path and a search directory both failed and the fallback
\* gave the path.
C12_Witness ==
  /\ pathService.pc = "resolved"
  /\ pathService.tried = <<"configured", "directory", "fallback">>
  /\ pathService.dbPath = BranchResult("fallback")
  /\ BranchResult("configured") = Undefined

\* the main.sqlite candidates of the directory branch, in readdirSync order
DirectoryCandidates ==
  LET dir == Trim(pathService.directory)
      subdirs == IF dir \in DOMAIN disk /\ disk[dir].type = "dir"
                 THEN FilterPrefix(disk[dir].entries, ThingsDataPrefix) ELSE <<>>
  IN [k \in 1..Len(subdirs) |-> join(<<dir, subdirs[k], MainSqlite>>)]

\* the candidates that pass validation
Passing(cands) == { k \in 1..Len(cands) : _isUsableSQLiteFile(disk, cands[k]) }

\* candidate k passes, none that passes is more recent, and k is the first
\* seen of those as recent as it
MostRecentPassing(cands, k) ==
  /\ k \in Passing(cands)
  /\ \A j \in Passing(cands) :
       \/ disk[cands[j]].mtimeMs < disk[cands[k]].mtimeMs
       \/ disk[cands[j]].mtimeMs = disk[cands[k]].mtimeMs /\ k <= j

\* the directory branch was taken and has ended
DirectoryBranchDone ==
  "directory" \in Range(pathService.tried) /\ pathService.pc # "directory"

\* C13: when the search directory holds several ThingsData-* subfolders, the
\* directory branch returns the main.sqlite that passes validation and has the
\* most recent modification time among the candidates that pass (the first
\* seen on a tie); the branch fails only when no candidate passes.
C13_MostRecentPassingCandidate ==
  DirectoryBranchDone /\ Len(DirectoryCandidates) >= 2 =>
    IF Passing(DirectoryCandidates) = {}
    THEN pathService.tried[Len(pathService.tried)] # "directory"
         \/ pathService.pc # "resolved"
    ELSE /\ pathService.pc = "resolved"
         /\ pathService.tried[Len(pathService.tried)] = "directory"
         /\ \E k \in 1..Len(DirectoryCandidates) :
              /\ MostRecentPassing(DirectoryCandidates, k)
              /\ pathService.dbPath = Some(DirectoryCandidates[k])

\* the branch is given and yields a validated path
BranchSucceeds(b) ==
  BranchGiven(b) /\ BranchResult(b) \notin {Undefined, Thrown}

\* C14: when none of the three branches yields a validated path, constructing
\* the DbPathService fails with its own terminal error, 'No valid Things3
\* database path could be resolved', and no path is returned.
C14_NoPathIsTerminalError ==
  /\ pathService.pc \in {"resolved", "threw"}
  /\ \A k \in 1..3 : ~BranchSucceeds(BranchOrder[k])
  => /\ pathService.pc = "threw"
     /\ pathService.err = "noPath"
     /\ pathService.dbPath = Undefined

\* the configured branch was taken and has ended
ConfiguredBranchDone ==
  "configured" \in Range(pathService.tried) /\ pathService.pc # "configured"

\* the configured branch validated the string v: it gave v when v names a
\* usable database file and failed otherwise
ConfiguredValidated(v) ==
  IF _isUsableSQLiteFile(disk, v)
  THEN pathService.tried = <<"configured">> /\ pathService.dbPath = Some(v)
  ELSE pathService.tried # <<"configured">> \/ pathService.pc # "resolved"

\* C15 (as stated): a configured path that begins with ~ is expanded to the
\* home directory before validation; every other configured path is
\* validated as the literal string.
C15_OnlyLeadingTildeChangesPath ==
  ConfiguredBranchDone =>
    ConfiguredValidated(
      IF pathService.configuredPath[1] = "~"
      THEN join(<<homedir, Tail(pathService.configuredPath)>>)
      ELSE pathService.configuredPath)

\* C15 (amended): the configured path is trimmed of surrounding whitespace
\* first; if the trimmed path begins with ~ the rest of it is joined to the
\* home directory, otherwise the trimmed path is what is validated.
C15_TrimmedThenTildeExpanded ==
  ConfiguredBranchDone =>
    ConfiguredValidated(
      IF Trim(pathService.configuredPath) # <<>>
         /\ Trim(pathService.configuredPath)[1] = "~"
      THEN join(<<homedir, Tail(Trim(pathService.configuredPath))>>)
      ELSE Trim(pathService.configuredPath))

\* A configured path typed with a leading blank before its ~ resolved to the
\* file in the home directory.
C15_Witness ==
  /\ pathService.pc = "resolved"
  /\ pathService.tried = <<"configured">>
  /\ pathService.configuredPath[1] = " "
  /\ pathService.configuredPath[2] = "~"
  /\ pathService.dbPath = Some(homeDb)

\* ------------------------------------------------- getTasks under the filters
tagUrgent == <<"u","r","g","e","n","t">>
Website == <<"W","e","b","s","i","t","e">>
Blog == <<"B","l","o","g">>
Marketing == <<"M","a","r","k","e","t","i","n","g">>
Dev == <<"D","e","v">>

\* a TMTask row with its joined titles; k tells the rows of the pool apart
QueryRow(k, tags, project, area, project_area, trashed, type) ==
  [uuid |-> <<"Q","Q","Q","Q","Q","Q","Q","Q">> \o <<k>>, title |-> <<"T">> \o <<k>>,
   notes |-> <<>>, creationDate |-> Null, startDate |-> Null,
   stopDate |-> Null, deadline |-> Null, status |-> 0,
   trashed |-> trashed, type |-> type, tags |-> tags,
   project |-> project, area |-> area, project_area |-> project_area]

QueryTaskPool ==
  { \* the rows of the README example
    QueryRow("a", <<tagWork, tagUrgent>>, Some(Website), Some(Marketing), Null, 0, 0),
    QueryRow("b", <<tagHome>>, Some(Blog), Some(Marketing), Null, 0, 0),
    QueryRow("c", <<tagWork>>, Some(Website), Some(Dev), Null, 0, 0),
    \* the area comes from the project only
    QueryRow("d", <<tagWork>>, Some(Website), Null, Some(Marketing), 0, 0),
    \* an area of its own, and a project in another area
    QueryRow("e", <<tagWork>>, Some(Website), Some(Dev), Some(Marketing), 0, 0),
    \* no tag, no project, no area
    QueryRow("f", <<>>, Null, Null, Null, 0, 0),
    QueryRow("g", <<tagUrgent>>, Null, Some(Marketing), Null, 0, 0),
    \* trashed, a project (type 1), tagged imported
    QueryRow("h", <<tagWork>>, Some(Website), Some(Marketing), Null, 1, 0),
    QueryRow("i", <<tagWork>>, Some(Website), Some(Marketing), Null, 0, 1),
    QueryRow("j", <<tagWork, tagImported>>, Some(Website), Some(Marketing), Null, 0, 0) }

QueryDatabases == { t \in SUBSET QueryTaskPool : Cardinality(t) <= MaxTasks }

\* the filter settings of the model
FilterValues ==
  [tags |-> { Str(<<>>), Str(tagWork), NotAString("undefined"), NotAString("number"),
              Str(<<" ">> \o tagWork \o <<",", ",", " ">> \o tagUrgent \o <<" ", ",">>) },
   projects |-> { Str(<<>>), Str(Website), NotAString("undefined") },
   areas |-> { Str(<<>>), Str(Marketing), Str(Marketing \o <<",", " ">> \o Dev),
               NotAString("number") }]

QuerySettings ==
  { [st EXCEPT !.filterTags = t, !.filterProjects = p, !.filterAreas = a] :
      st \in { s \in SettingsPool : s.destinationFolder = <<>> },
      t \in FilterValues.tags, p \in FilterValues.projects, a \in FilterValues.areas }

InitQuery ==
  /\ tasks \in QueryDatabases
  /\ settings \in QuerySettings
  /\ now = 0
  /\ vaultFiles = <<>>
  /\ vaultFolders = {}
  /\ cacheFile = NoCacheFile
  /\ dbFileWrites = 0
  /\ run = [p \in Procs |-> IdleRun]
  /\ lastOp = "none"
  /\ nRuns = 0
  /\ disk = <<>>
  /\ pathService = NoPathService
  /\ svc = NoService
  /\ conv = NoConversion

\* "Rebuild cache" commands, one at a time: getTasks is what they select
NextQuery ==
  \E p \in SeqProcs :
    \/ NoneActive /\ Start(p, "rebuild")
    \/ OpenDatabase(p)
    \/ LoadCache(p)
    \/ GetTasks(p)
    \/ RebuildSave(p)

SpecQuery == InitQuery /\ [][NextQuery]_vars

\* ------------------------------------------------------------------ C16..C19
\* the filter sets of the settings in force
Filters == prepareFilters(settings)

\* a "Rebuild cache" command has its rows: what getTasks selected
QueryDone(p) == run[p].kind = "rebuild" /\ run[p].pc \in {"rsave", "done"}

Selected(p) == { run[p].rows[k] : k \in 1..Len(run[p].rows) }

\* the row has one of the tags, the project, one of the areas of the filter
InTagFilter(r) == \E t \in Range(r.tags) : t \in Range(Filters.tags)
InProjectFilter(r) == r.project # Null /\ r.project.val \in Range(Filters.projects)
InAreaFilter(r) ==
  \/ r.area # Null /\ r.area.val \in Range(Filters.areas)
  \/ r.project_area # Null /\ r.project_area.val \in Range(Filters.areas)

\* the row satisfies every filter dimension that is not empty
SatisfiesFilters(r) ==
  /\ Filters.tags # <<>> => InTagFilter(r)
  /\ Filters.projects # <<>> => InProjectFilter(r)
  /\ Filters.areas # <<>> => InAreaFilter(r)

\* not trashed, a to-do (type 0), not tagged imported
Standing(r) == r.trashed = 0 /\ r.type = 0 /\ tagImported \notin Range(r.tags)

\* C16: getTasks selects a record only if it satisfies every filter dimension
\* that is not empty (AND across tags, projects and areas, OR within one); an
\* empty dimension imposes no constraint, so every record that passes the
\* non-empty ones, is not excluded by the standing clauses and is not in the
\* cache is selected.
C16_EveryNonEmptyDimension ==
  \A p \in SeqProcs :
    QueryDone(p) =>
      /\ \A r \in Selected(p) : SatisfiesFilters(r)
      /\ \A r \in tasks :
           Standing(r) /\ SatisfiesFilters(r) /\ r.uuid \notin DOMAIN run[p].queried
             => r \in Selected(p)

\* With all three filters set, one record was selected and another, which
\* fails a dimension, was not; the selected one matches them all.
C16_Witness ==
  \E p \in SeqProcs :
    /\ QueryDone(p)
    /\ Filters.tags # <<>> /\ Filters.projects # <<>> /\ Filters.areas # <<>>
    /\ \E r \in Selected(p) : InTagFilter(r) /\ InProjectFilter(r) /\ InAreaFilter(r)
    /\ \E x \in tasks \ Selected(p) :
         Standing(x) /\ InTagFilter(x) /\ InProjectFilter(x) /\ ~InAreaFilter(x)

\* C17 (as stated): for the area filter the area of a record is its own area,
\* and the area of its parent project is consulted only when its own area is
\* unset: a record whose own area is set to a value outside the area filter
\* is not selected.
C17_OwnAreaDecides ==
  \A p \in SeqProcs :
    QueryDone(p) /\ Filters.areas # <<>> =>
      \A r \in Selected(p) :
        IF r.area # Null
        THEN r.area.val \in Range(Filters.areas)
        ELSE r.project_area # Null /\ r.project_area.val \in Range(Filters.areas)

\* C17 (amended): a record passes the area filter when its own area or the
\* area of its parent project is in the filter, whether or not its own area
\* is set; a record that passes the other clauses is selected exactly when
\* one of the two areas is in the filter.
C17_OwnOrProjectArea ==
  \A p \in SeqProcs :
    QueryDone(p) /\ Filters.areas # <<>> =>
      \A r \in tasks :
        /\ Standing(r)
        /\ Filters.tags # <<>> => InTagFilter(r)
        /\ Filters.projects # <<>> => InProjectFilter(r)
        /\ r.uuid \notin DOMAIN run[p].queried
        => (r \in Selected(p) <=>
              \/ r.area # Null /\ r.area.val \in Range(Filters.areas)
              \/ r.project_area # Null /\ r.project_area.val \in Range(Filters.areas))

\* A record whose own area is outside the area filter was selected through
\* the area of its project.
C17_Witness ==
  \E p \in SeqProcs :
    /\ QueryDone(p)
    /\ Filters.areas # <<>>
    /\ \E r \in Selected(p) :
         /\ r.area # Null
         /\ r.area.val \notin Range(Filters.areas)
         /\ r.project_area # Null
         /\ r.project_area.val \in Range(Filters.areas)

\* C18: getTasks never selects a record that is trashed, whose type is not 0,
\* or that carries the reserved tag 'imported'.
C18_StandingExclusions ==
  \A p \in SeqProcs :
    QueryDone(p) =>
      \A r \in Selected(p) :
        /\ r.trashed = 0
        /\ r.type = 0
        /\ \A k \in 1..Len(r.tags) : r.tags[k] # tagImported

\* The table held a record that passes the filters but is trashed, is not a
\* to-do or is tagged imported; it was left out and another was selected.
C18_Witness ==
  \E p \in SeqProcs :
    /\ QueryDone(p)
    /\ Selected(p) # {}
    /\ \E x \in tasks \ Selected(p) :
         /\ SatisfiesFilters(x)
         /\ x.uuid \notin DOMAIN run[p].queried
         /\ x.trashed = 1 \/ x.type = 1 \/ tagImported \in Range(x.tags)

\* the stretches <<i, j>> of s between commas (or the ends of s) that hold a
\* character other than white space
Pieces(s) ==
  { x \in (1..Len(s)) \X (1..Len(s)) :
      /\ x[1] <= x[2]
      /\ \A k \in x[1]..x[2] : s[k] # ","
      /\ x[1] = 1 \/ s[x[1] - 1] = ","
      /\ x[2] = Len(s) \/ s[x[2] + 1] = ","
      /\ \E k \in x[1]..x[2] : s[k] \notin SpaceChars }

\* the stretch without the white space around it
Core(s, x) ==
  SubSeq(s,
         CHOOSE a \in x[1]..x[2] :
           s[a] \notin SpaceChars /\ \A k \in x[1]..(a - 1) : s[k] \in SpaceChars,
         CHOOSE b \in x[1]..x[2] :
           s[b] \notin SpaceChars /\ \A k \in (b + 1)..x[2] : s[k] \in SpaceChars)

\* items is what the setting val lists: nothing when val is not a string, else
\* its comma-separated pieces, trimmed, the empty ones dropped, in order
ListsValuesOf(items, val) ==
  IF val.typeof # "string" THEN items = <<>>
  ELSE /\ Len(items) = Cardinality(Pieces(val.chars))
       /\ \A x \in Pieces(val.chars) :
            items[1 + Cardinality({ y \in Pieces(val.chars) : y[1] < x[1] })]
              = Core(val.chars, x)

CacheKeys == {uuidA1, uuidB1}
CacheEntries ==
  [importedAt : 0..MaxClock, filePath : {<<>>, <<"a",".","m","d">>}]

\* the mappings with at most one entry per key
Caches ==
  {EmptyCache}
  \cup { add(EmptyCache, k, e) : k \in CacheKeys, e \in CacheEntries }
  \cup { add(add(EmptyCache, uuidA1, e1), uuidB1, e2) :
           e1 \in CacheEntries, e2 \in CacheEntries }

\* imported.json: absent, written by save(), or a text JSON.parse rejects
\* (data is what the text held before it was damaged)
CacheFiles ==
  {NoCacheFile}
  \cup { [exists |-> TRUE, parses |-> ok, json |-> "object", data |-> c] :
           ok \in BOOLEAN, c \in Caches }

\* new CacheService(plugin): cache = {}; shape is the kind of value this.cache
\* is, cache its own properties.  History: last, the method called last;
\* failed, it threw or an adapter call of it threw; added, the entries add()
\* was given since the last load() or clear(); fileBefore, imported.json as
\* it was when the last method was called.
NewService ==
  [pc |-> "ready", cache |-> EmptyCache, shape |-> "object", last |-> "new",
   failed |-> FALSE, added |-> EmptyCache, fileBefore |-> NoCacheFile,
   got |-> NothingGot]

InitCache ==
  /\ tasks = {}
  /\ settings \in { st \in SettingsPool : st.filterTags = Str(<<>>) }
  /\ now = 0
  /\ vaultFiles = <<>>
  /\ vaultFolders = {}
  /\ cacheFile \in CacheFiles
  /\ dbFileWrites = 0
  /\ run = [p \in Procs |-> IdleRun]
  /\ lastOp = "none"
  /\ nRuns = 0
  /\ disk = <<>>
  /\ pathService = NoPathService
  /\ svc = NewService
  /\ conv = NoConversion

\* the variables a CacheService leaves alone
notCacheVars == <<tasks, settings, now, vaultFiles, vaultFolders, dbFileWrites,
                  run, lastOp, nRuns, disk, pathService, conv>>

\* await cache.load(): an adapter call that throws is caught
SvcLoad ==
  /\ svc.pc = "ready"
  /\ \E readable \in BOOLEAN :
       svc' = [svc EXCEPT !.cache = load(cacheFile, readable),
                          !.shape = loadedType(cacheFile, readable),
                          !.last = "load", !.failed = ~readable,
                          !.added = EmptyCache, !.fileBefore = cacheFile,
                          !.got.shared = {}]
  /\ UNCHANGED <<cacheFile, notCacheVars>>

\* An add that writes the file at once.
SvcAddThrough ==
  /\ svc.pc = "ready"
  /\ \E uuid \in CacheKeys, entry \in CacheEntries :
       /\ svc' = [svc EXCEPT !.cache = add(svc.cache, uuid, entry),
                             !.last = "add", !.failed = FALSE,
                             !.added = add(svc.added, uuid, entry),
                             !.fileBefore = cacheFile,
                             !.got.shared = @ \ {uuid}]
       /\ cacheFile' = save(add(svc.cache, uuid, entry))
  /\ UNCHANGED notCacheVars

\* cache.add(uuid, entry): this.cache[uuid] = entry, in the strict code of a
\* class body, is a TypeError when this.cache is null or a number.
SvcAdd ==
  /\ svc.pc = "ready"
  /\ \E uuid \in CacheKeys, entry \in CacheEntries :
       svc' = IF svc.shape \in {"null", "number"}
              THEN [svc EXCEPT !.last = "add", !.failed = TRUE,
                               !.fileBefore = cacheFile]
              ELSE [svc EXCEPT !.cache = add(svc.cache, uuid, entry),
                               !.last = "add", !.failed = FALSE,
                               !.added = add(svc.added, uuid, entry),
                               !.fileBefore = cacheFile,
                               !.got.shared = @ \ {uuid}]
  /\ UNCHANGED <<cacheFile, notCacheVars>>

\* A save that adds the entries in memory to those of the file.
SvcSaveMerging ==
  /\ svc.pc = "ready"
  /\ \E ok \in BOOLEAN :
       /\ cacheFile' = IF ok THEN save(svc.cache @@ CacheOnDisk(cacheFile))
                              ELSE cacheFile
       /\ svc' = [svc EXCEPT !.last = "save", !.failed = ~ok,
                             !.fileBefore = cacheFile]
  /\ UNCHANGED notCacheVars

\* await cache.save(): adapter.write replaces the file or throws
SvcSave ==
  /\ svc.pc = "ready"
  /\ \E ok \in BOOLEAN :
       /\ cacheFile' = IF ~ok THEN cacheFile
                       ELSE IF svc.shape = "object" THEN save(svc.cache)
                       ELSE saveOther(svc.shape)
       /\ svc' = [svc EXCEPT !.last = "save", !.failed = ~ok,
                             !.fileBefore = cacheFile]
  /\ UNCHANGED notCacheVars

\* A clear that empties the memory and leaves the file.
SvcClearMemoryOnly ==
  /\ svc.pc = "ready"
  /\ svc' = [svc EXCEPT !.cache = EmptyCache, !.last = "clear", !.failed = FALSE,
                        !.added = EmptyCache, !.fileBefore = cacheFile,
                          !.got.shared = {}]
  /\ UNCHANGED <<cacheFile, notCacheVars>>

\* await cache.clear(): this.cache = {}; await this.save()
SvcClear ==
  /\ svc.pc = "ready"
  /\ \E ok \in BOOLEAN :
       /\ cacheFile' = IF ok THEN save(EmptyCache) ELSE cacheFile
       /\ svc' = [svc EXCEPT !.cache = EmptyCache, !.shape = "object",
                             !.last = "clear", !.failed = ~ok,
                             !.added = EmptyCache, !.fileBefore = cacheFile,
                          !.got.shared = {}]
  /\ UNCHANGED notCacheVars

NextCache == SvcLoad \/ SvcAdd \/ SvcSave \/ SvcClear

SpecCache == InitCache /\ [][NextCache]_vars

\* ------------------------------------------------------------------------ C20
\* C20: CacheService.load never throws: when imported.json is absent, cannot
\* be read or cannot be parsed the cache is the empty mapping afterwards, and
\* when it is present and valid the cache holds exactly the persisted entries.
C20_LoadFailsOpen ==
  svc.last = "load" =>
    /\ svc.pc = "ready"
    /\ IF cacheFile.exists /\ cacheFile.parses /\ ~svc.failed
       THEN svc.cache = cacheFile.data
       ELSE svc.cache = EmptyCache

\* A load of a file with two entries gave exactly them.
C20_Witness ==
  /\ svc.last = "load"
  /\ ~svc.failed
  /\ cacheFile.exists /\ cacheFile.parses
  /\ DOMAIN cacheFile.data = CacheKeys
  /\ svc.cache = cacheFile.data

\* ---------------------------------------------------------------------
\* add, save and clear of a CacheService
\* ---------------------------------------------------------------------

\* C21: every identifier given to add since the last load or clear is known
\* to has and is in getAll with the entry it was last given, and a call of
\* add leaves imported.json as it was.
C21_AddIsInMemoryUpsert ==
  /\ \A uuid \in DOMAIN svc.added :
       /\ has(svc.cache, uuid)
       /\ uuid \in DOMAIN getAll(svc.cache)
       /\ getAll(svc.cache)[uuid] = svc.added[uuid]
  /\ svc.last = "add" => cacheFile = svc.fileBefore

\* add replaced the entry of an identifier the file does not have, and the
\* file still lacks it.
C21_Witness ==
  /\ svc.last = "add"
  /\ uuidA1 \in DOMAIN svc.added
  /\ svc.cache[uuidA1].importedAt = 1
  /\ uuidA1 \notin DOMAIN CacheOnDisk(cacheFile)
  /\ uuidB1 \in DOMAIN CacheOnDisk(cacheFile)

\* C22: after a save that wrote, imported.json holds exactly the mapping in
\* memory: what the file had before and the memory lacks is gone.
C22_SaveOverwrites ==
  (svc.last = "save" /\ ~svc.failed) =>
    /\ cacheFile.exists /\ cacheFile.parses
    /\ cacheFile.data = svc.cache
    /\ CacheOnDisk(cacheFile) = svc.cache

\* A save replaced a file that had an entry the memory did not have.
C22_Witness ==
  /\ svc.last = "save" /\ ~svc.failed
  /\ uuidB1 \in DOMAIN CacheOnDisk(svc.fileBefore)
  /\ DOMAIN svc.cache = {uuidA1}
  /\ DOMAIN CacheOnDisk(cacheFile) = {uuidA1}

\* C23: after a clear whose write succeeded, the memory is empty and so is
\* imported.json: has is false of every identifier here and in any service
\* that loads the file afterwards.
C23_ClearEmptiesBoth ==
  (svc.last = "clear" /\ ~svc.failed) =>
    /\ svc.cache = EmptyCache
    /\ \A uuid \in CacheKeys :
         /\ ~has(svc.cache, uuid)
         /\ \A readable \in BOOLEAN : ~has(load(cacheFile, readable), uuid)

\* A clear emptied a memory and a file that both had entries.
C23_Witness ==
  /\ svc.last = "clear" /\ ~svc.failed
  /\ DOMAIN CacheOnDisk(svc.fileBefore) = CacheKeys
  /\ CacheOnDisk(cacheFile) = EmptyCache
  /\ svc.cache = EmptyCache

\* ---------------------------------------------------------------------
\* a caller of getAll
\* ---------------------------------------------------------------------

\* A getAll that copies every entry as well.
SvcGetAllDeep ==
  /\ svc.pc = "ready"
  /\ svc' = [svc EXCEPT !.last = "getAll", !.failed = FALSE,
                        !.fileBefore = cacheFile,
                        !.got = [held |-> TRUE, obj |-> getAll(svc.cache),
                                 shared |-> {}]]
  /\ UNCHANGED <<cacheFile, notCacheVars>>

\* const all = cache.getAll(): a new object whose values are the entry
\* objects of the cache
SvcGetAll ==
  /\ svc.pc = "ready"
  /\ svc' = [svc EXCEPT !.last = "getAll", !.failed = FALSE,
                        !.fileBefore = cacheFile,
                        !.got = [held |-> TRUE, obj |-> getAll(svc.cache),
                                 shared |-> DOMAIN svc.cache]]
  /\ UNCHANGED <<cacheFile, notCacheVars>>

\* the entries a caller writes: it leaves the path alone
CallerEntries == { e \in CacheEntries : e.filePath = <<>> }

\* What the caller does through the object it was given: all[uuid] = entry,
\* delete all[uuid], or an assignment to the fields of all[uuid].  An entry
\* object that the cache has as well changes there too.
CallerChanges ==
  /\ svc.pc = "ready"
  /\ svc.got.held
  /\ \/ \E uuid \in CacheKeys, entry \in CallerEntries :
          svc' = [svc EXCEPT !.last = "setKey",
                             !.got.obj = add(@, uuid, entry),
                             !.got.shared = @ \ {uuid}]
     \/ \E uuid \in DOMAIN svc.got.obj :
          svc' = [svc EXCEPT !.last = "deleteKey",
                             !.got.obj = [k \in DOMAIN @ \ {uuid} |-> @[k]],
                             !.got.shared = @ \ {uuid}]
     \/ \E uuid \in DOMAIN svc.got.obj, entry \in CallerEntries :
          /\ entry # svc.got.obj[uuid]
          /\ svc' = [svc EXCEPT !.last = "alterEntry",
                                !.got.obj[uuid] = entry,
                                !.cache = IF uuid \in svc.got.shared
                                            THEN [@ EXCEPT ![uuid] = entry]
                                            ELSE @]
  /\ UNCHANGED <<cacheFile, notCacheVars>>

\* imported.json of two earlier imports, or none
InitGetAll ==
  /\ InitCache
  /\ cacheFile \in {NoCacheFile,
                     save(add(add(EmptyCache, uuidA1, [importedAt |-> 0, filePath |-> <<>>]),
                              uuidB1, [importedAt |-> 0, filePath |-> <<>>]))}

NextGetAll == SvcLoad \/ SvcSave \/ SvcGetAll \/ CallerChanges

SpecGetAll == InitGetAll /\ [][NextGetAll]_vars

\* What has, getAll and save give of a cache.
Observed(cache) ==
  [has |-> [uuid \in CacheKeys |-> has(cache, uuid)],
   getAll |-> getAll(cache),
   save |-> save(cache)]

\* C24 as stated: no change a caller makes through the object getAll returned
\* changes what has, getAll or save give.
C24_NoCallerChangeReachesCache ==
  [][svc'.last \in {"setKey", "deleteKey", "alterEntry"} =>
       Observed(svc'.cache) = Observed(svc.cache)]_vars

\* C24: getAll returns a new object with the cache's own entries: a key set
\* or deleted on it leaves what has, getAll and save give as it was, and a
\* field assigned on a returned entry is changed in the cache exactly when
\* the cache still has that entry.
C24_ShallowCopy ==
  [][/\ svc'.last = "getAll" =>
          /\ svc'.got.obj = svc.cache
          /\ svc'.got.shared = DOMAIN svc.cache
          /\ svc'.cache = svc.cache
     /\ svc'.last \in {"setKey", "deleteKey"} =>
          Observed(svc'.cache) = Observed(svc.cache)
     /\ svc'.last = "alterEntry" =>
          \A uuid \in CacheKeys :
            /\ has(svc'.cache, uuid) = has(svc.cache, uuid)
            /\ (has(svc.cache, uuid) /\ svc'.cache[uuid] # svc.cache[uuid]) =>
                 /\ uuid \in svc.got.shared
                 /\ svc'.cache[uuid] = svc'.got.obj[uuid]
            /\ (uuid \in svc.got.shared /\ svc'.got.obj[uuid] # svc.got.obj[uuid]) =>
                 svc'.cache[uuid] = svc'.got.obj[uuid]]_vars

\* The caller deleted a key and assigned to an entry of another: the cache
\* still has the first key, and has the second entry as assigned.
C24_Witness ==
  /\ svc.last = "alterEntry"
  /\ uuidB1 \notin DOMAIN svc.got.obj /\ has(svc.cache, uuidB1)
  /\ uuidA1 \in svc.got.shared
  /\ svc.cache[uuidA1] = svc.got.obj[uuidA1]
  /\ uuidA1 \in DOMAIN CacheOnDisk(cacheFile)
  /\ svc.cache[uuidA1] # CacheOnDisk(cacheFile)[uuidA1]

\* ---------------------------------------------------------------------
\* the paths of the documents
\* ---------------------------------------------------------------------

\* C25: in an Import that ran to its end, two records written under different
\* identifiers were written at different paths.
C25_DifferentIdsDifferentPaths ==
  \A p \in Procs :
    Completed(p, "import") =>
      \A i, j \in WrittenAt(run[p]) :
        run[p].rows[i].uuid # run[p].rows[j].uuid =>
          pathOf(run[p].rows[i]) # pathOf(run[p].rows[j])

\* ---------------------------------------------------------------------
\* convertThingsDate on its own
\* ---------------------------------------------------------------------

MinYear == 1900
MaxYear == 2100

\* The years given: the bounds and their neighbours, leap years (2000, 2024)
\* and years that are not (1900, 2025, 2100).
DateYears == {MinYear - 1, MinYear, 2000, 2024, 2025, MaxYear, MaxYear + 1}

\* year << 16 | month << 12 | day << 7 | low
Pack(year, month, day, low) == year * 65536 + month * 4096 + day * 128 + low

\* Every month and day the four and five bits can hold, the low seven bits
\* clear or set.
PackedInputs ==
  { Pack(y, m, d, low) : y \in DateYears, m \in 0..15, d \in 0..31, low \in {0, 127} }

\* Packed dates, nothing, zero, a negative number, the threshold and Unix
\* timestamps beyond it or with a fraction.
DateInputs ==
  { Num(w) : w \in PackedInputs }
    \cup {Null, Num(0), Num(-1), Num(UnixThreshold), Num(UnixThreshold + 1),
          [whole |-> 1765540800, frac |-> 500], [whole |-> 86400, frac |-> 1]}

InitDate ==
  /\ tasks = {}
  /\ settings \in { st \in SettingsPool : st.filterTags = Str(<<>>) }
  /\ now = 0
  /\ vaultFiles = <<>>
  /\ vaultFolders = {}
  /\ cacheFile = NoCacheFile
  /\ dbFileWrites = 0
  /\ run = [p \in Procs |-> IdleRun]
  /\ lastOp = "none"
  /\ nRuns = 0
  /\ disk = <<>>
  /\ pathService = NoPathService
  /\ svc = NoService
  /\ conv \in { [pc |-> "given", abs |-> a, iso |-> NoDate] : a \in DateInputs }

\* toISO(abs)
ConvertThingsDate ==
  /\ conv.pc = "given"
  /\ conv' = [conv EXCEPT !.pc = "done", !.iso = convertThingsDate(conv.abs)]
  /\ UNCHANGED <<commandVars, disk, pathService, svc>>

SpecDate == InitDate /\ [][ConvertThingsDate]_vars

\* The fields a packed integer decodes to.
YearOf(w) == w \div 65536
MonthOf(w) == (w % 65536) \div 4096
DayOf(w) == (w % 4096) \div 128

\* A packed date: an integer that is not taken as a Unix timestamp.
IsPacked(abs) == abs # Null /\ abs.frac = 0 /\ abs.whole <= UnixThreshold

InBounds(year, month, day) ==
  /\ year \in MinYear..MaxYear
  /\ month \in 1..12
  /\ day \in 1..31

LeapYear(y) == y % 4 = 0 /\ (y % 100 # 0 \/ y % 400 = 0)

DaysInMonth(y, m) ==
  IF m = 2 THEN (IF LeapYear(y) THEN 29 ELSE 28)
  ELSE IF m \in {4, 6, 9, 11} THEN 30 ELSE 31

\* The fields of a date and time that exists, with a year of four digits.
ValidIso(iso) ==
  /\ iso.valid
  /\ iso.year \in 0..9999
  /\ iso.month \in 1..12
  /\ iso.day \in 1..DaysInMonth(iso.year, iso.month)
  /\ iso.hour \in 0..23 /\ iso.minute \in 0..59 /\ iso.second \in 0..59
  /\ iso.ms \in 0..999

Midnight(y, m, d) ==
  [valid |-> TRUE, year |-> y, month |-> m, day |-> d,
   hour |-> 0, minute |-> 0, second |-> 0, ms |-> 0]

\* C26: of a packed integer whose day, month and year are within 1..31, 1..12
\* and 1900..2100, toISO is a valid ISO date; of one that decodes outside
\* these, it is the empty string.
C26_BoundsDecideValidity ==
  (conv.pc = "done" /\ IsPacked(conv.abs)) =>
    IF InBounds(YearOf(conv.abs.whole), MonthOf(conv.abs.whole), DayOf(conv.abs.whole))
    THEN ValidIso(conv.iso)
    ELSE conv.iso = NoDate

\* 2100-12-31 with the low bits set gave a valid date; so the largest date
\* within the bounds is converted.
C26_Witness ==
  /\ conv.pc = "done"
  /\ conv.abs = Num(Pack(MaxYear, 12, 31, 127))
  /\ ValidIso(conv.iso)

\* C27 as stated: of every year, month and day within the bounds, toISO of
\* the packed integer is midnight UTC of that year, month and day.
C27_EveryTripleRoundTrips ==
  (conv.pc = "done" /\ IsPacked(conv.abs)) =>
    \A y \in {YearOf(conv.abs.whole)}, m \in {MonthOf(conv.abs.whole)},
       d \in {DayOf(conv.abs.whole)} :
      (conv.abs = Num(Pack(y, m, d, 0)) /\ InBounds(y, m, d)) =>
        conv.iso = Midnight(y, m, d)

\* C27: of a year, month and day within the bounds, toISO of the packed
\* integer is midnight UTC of that day if the month has such a day, and of
\* the day as many days into the next month as it is past the end if not.
C27_CalendarDatesRoundTrip ==
  (conv.pc = "done" /\ IsPacked(conv.abs)) =>
    \A y \in {YearOf(conv.abs.whole)}, m \in {MonthOf(conv.abs.whole)},
       d \in {DayOf(conv.abs.whole)} :
      (conv.abs = Num(Pack(y, m, d, 0)) /\ InBounds(y, m, d)) =>
        conv.iso = IF d <= DaysInMonth(y, m)
                     THEN Midnight(y, m, d)
                     ELSE Midnight(y, m + 1, d - DaysInMonth(y, m))

\* The leap day of 2024 came back as itself.
C27_Witness ==
  /\ conv.pc = "done"
  /\ conv.abs = Num(Pack(2024, 2, 29, 0))
  /\ conv.iso = Midnight(2024, 2, 29)

\* ---------------------------------------------------------------------
\* the checklist of a record
\* ---------------------------------------------------------------------

\* The checklist items of a task in the table.
ItemsOf(taskUuid) == { c \in TMChecklistItem : c.task = taskUuid }

\* The place of an item among those of its task: one more than the number of
\* items with a smaller index.
PlaceOf(c) == 1 + Cardinality({ d \in ItemsOf(c.task) : d.index < c.index })

\* C28: for every record of the database, getChecklistItemsByTask gives one
\* item for each checklist item of the record, each at its place in the
\* ascending order of the index column, with its title and with checked
\* being that its status is 3.
C28_ChecklistInIndexOrder ==
  \A r \in tasks :
    /\ Len(getChecklistItemsByTask(r.uuid)) = Cardinality(ItemsOf(r.uuid))
    /\ \A c \in ItemsOf(r.uuid) :
         getChecklistItemsByTask(r.uuid)[PlaceOf(c)] =
           [title |-> c.title, checked |-> (c.status = 3)]

\* An Import wrote the note of the record whose items are soy (index 2,
\* status 0) and oat (index 1, status 3): oat, checked, then soy, unchecked.
C28_Witness ==
  \E p \in Procs :
    /\ Completed(p, "import")
    /\ \E k \in WrittenAt(run[p]) :
         /\ run[p].rows[k].uuid = uuidA1
         /\ pathOf(run[p].rows[k]) \in DOMAIN vaultFiles
         /\ vaultFiles[pathOf(run[p].rows[k])] = contentOf(run[p].rows[k])
         /\ getChecklistItemsByTask(uuidA1) =
              << [title |-> <<"o","a","t">>, checked |-> TRUE],
                 [title |-> <<"s","o","y">>, checked |-> FALSE] >>

\* ---------------------------------------------------------------------
\* a record without a title
\* ---------------------------------------------------------------------

Untitled == <<"U","n","t","i","t","l","e","d">>

\* titles that are empty or white space only
BlankTitles == { <<>>, <<" ">>, <<"\n", " ", "\t">> }

\* C29: in an Import that ran to its end with no failure, every selected
\* record whose title is empty or white space was written, at a path that has
\* 'Untitled' in it, and its identifier was added to the cache; and the path
\* of any record about to be written has 'Untitled' in it once its title is
\* made blank.
C29_BlankTitleStillImported ==
  /\ \A p \in Procs :
       (Completed(p, "import") /\ NothingFailed(p)) =>
         \A k \in 1..Len(run[p].rows) :
           IsBlank(run[p].rows[k].title) =>
             /\ k \in WrittenAt(run[p])
             /\ Contains(pathOf(run[p].rows[k]), Untitled)
             /\ pathOf(run[p].rows[k]) \in run[p].created \cup run[p].modified
             /\ has(run[p].cache, run[p].rows[k].uuid)
             /\ run[p].cache[run[p].rows[k].uuid].filePath = pathOf(run[p].rows[k])
  /\ \A p \in Procs :
       (run[p].kind = "import" /\ run[p].pc = "file") =>
         \A t \in BlankTitles :
           /\ Contains(pathOf([CurrentRow(p) EXCEPT !.title = t]), Untitled)
           /\ isValidFilePath(pathOf([CurrentRow(p) EXCEPT !.title = t]))

\* An Import wrote the note of the record with the empty title, and the note
\* and the cache entry are there.
C29_Witness ==
  \E p \in Procs :
    /\ Completed(p, "import")
    /\ NothingFailed(p)
    /\ \E k \in WrittenAt(run[p]) :
         /\ run[p].rows[k].uuid = uuidC1
         /\ run[p].rows[k].title = <<>>
         /\ Contains(pathOf(run[p].rows[k]), Untitled)
         /\ pathOf(run[p].rows[k]) \in DOMAIN vaultFiles
         /\ uuidC1 \in DOMAIN Persisted

\* ---------------------------------------------------------------------
\* the WHERE clauses and their parameters
\* ---------------------------------------------------------------------

\* list.map(() => '?'): one placeholder for each value
Marks(list) == [i \in 1..Len(list) |-> "?"]

\* A builder that binds the areas once and no reserved tag.
buildWithFiltersOnly(tags, projects, areas) ==
  [whereClauses |->
     << <<"TMTask.trashed = 0">>, <<"TMTask.type = 0">> >>
     \o (IF Len(tags) > 0 THEN << <<"TMTag.title IN">> \o Marks(tags) >> ELSE <<>>)
     \o (IF Len(projects) > 0
         THEN << <<"TMProject.title IN">> \o Marks(projects) >> ELSE <<>>)
     \o (IF Len(areas) > 0
         THEN << <<"TMArea.title IN">> \o Marks(areas)
                 \o <<"OR ProjectArea.title IN">> \o Marks(areas) >>
         ELSE <<>>)
     \o << <<"NOT IN TMTag.title =", "?">> >>,
   params |-> tags \o projects \o areas]

\* buildWhereClausesAndParams: each clause as its column texts and its
\* placeholders, and the values pushed to params.
buildWhereClausesAndParams(tags, projects, areas) ==
  [whereClauses |->
     << <<"TMTask.trashed = 0">>, <<"TMTask.type = 0">> >>
     \o (IF Len(tags) > 0 THEN << <<"TMTag.title IN">> \o Marks(tags) >> ELSE <<>>)
     \o (IF Len(projects) > 0
         THEN << <<"TMProject.title IN">> \o Marks(projects) >> ELSE <<>>)
     \o (IF Len(areas) > 0
         THEN << <<"TMArea.title IN">> \o Marks(areas)
                 \o <<"OR ProjectArea.title IN">> \o Marks(areas) >>
         ELSE <<>>)
     \o << <<"NOT IN TMTag.title =", "?">> >>,
   params |->
     (IF Len(tags) > 0 THEN tags ELSE <<>>)
     \o (IF Len(projects) > 0 THEN projects ELSE <<>>)
     \o (IF Len(areas) > 0 THEN areas \o areas ELSE <<>>)
     \o <<tagImported>>]

\* whereClauses.join(' AND '): the texts and placeholders of the predicate
RECURSIVE Joined(_)
Joined(clauses) ==
  IF clauses = <<>> THEN <<>> ELSE Head(clauses) \o Joined(Tail(clauses))

\* For each placeholder of the predicate, in order, the text it follows.
RECURSIVE SlotsAfter(_, _)
SlotsAfter(tokens, text) ==
  IF tokens = <<>> THEN <<>>
  ELSE IF Head(tokens) = "?" THEN <<text>> \o SlotsAfter(Tail(tokens), text)
       ELSE SlotsAfter(Tail(tokens), Head(tokens))

Slots(built) == SlotsAfter(Joined(built.whereClauses), "")

\* The values that positional binding gives to the placeholders after a text,
\* in their order.
BoundAt(params, at) ==
  [i \in 1..Cardinality(at) |->
     params[CHOOSE n \in at : Cardinality({ m \in at : m < n }) = i - 1]]

BoundTo(params, slots, text) ==
  BoundAt(params, { n \in 1..Len(params) : n <= Len(slots) /\ slots[n] = text })

\* The place of a text in the order tags, projects, areas, reserved tag.
ClauseRank(text) ==
  CASE text = "TMTag.title IN" -> 1
    [] text = "TMProject.title IN" -> 2
    [] text = "TMArea.title IN" -> 3
    [] text = "OR ProjectArea.title IN" -> 4
    [] text = "NOT IN TMTag.title =" -> 5
    [] OTHER -> 0

\* params has as many values as there are placeholders, the placeholders
\* come in clause order, and each list is bound to its own filter.
ParamsMatch(params, slots, f) ==
  /\ Len(params) = Len(slots)
  /\ \A i, j \in 1..Len(slots) :
       i < j => ClauseRank(slots[i]) <= ClauseRank(slots[j])
  /\ \A n \in 1..Len(slots) : ClauseRank(slots[n]) > 0
  /\ BoundTo(params, slots, "TMTag.title IN") = f.tags
  /\ BoundTo(params, slots, "TMProject.title IN") = f.projects
  /\ BoundTo(params, slots, "TMArea.title IN") = f.areas
  /\ BoundTo(params, slots, "OR ProjectArea.title IN") = f.areas
  /\ BoundTo(params, slots, "NOT IN TMTag.title =") = <<tagImported>>

BuiltMatches(f) ==
  ParamsMatch(buildWhereClausesAndParams(f.tags, f.projects, f.areas).params,
              Slots(buildWhereClausesAndParams(f.tags, f.projects, f.areas)),
              f)

Built == buildWhereClausesAndParams(Filters.tags, Filters.projects, Filters.areas)

HasBadWord(filePath) ==
  \/ Contains(filePath, <<"u","n","d","e","f","i","n","e","d">>)
  \/ Contains(filePath, <<"n","u","l","l">>)

\* C31: the step of writeNote that finds 'undefined' or 'null' in the path of
\* its record leaves the vault's files, imported.json and the in-memory cache
\* as they were, creates and modifies nothing, and goes on to the next row
\* without an error.
C31_BadPathSkippedSilently ==
  [][\A p \in SeqProcs :
       ( /\ run[p].pc = "file"
         /\ HasBadWord(pathOf(CurrentRow(p)))
         /\ run'[p] # run[p]
         /\ lastOp' # "crash" )
       => /\ vaultFiles' = vaultFiles
          /\ cacheFile' = cacheFile
          /\ run'[p].cache = run[p].cache
          /\ run'[p].created = run[p].created
          /\ run'[p].modified = run[p].modified
          /\ run'[p].pc = "row"
          /\ run'[p].err = "none"
          /\ run'[p].i = run[p].i + 1
          /\ run'[p].results = Append(run[p].results, "path")]_vars

\* An Import ran to its end past the record titled 'Annulled': no note, no
\* cache entry.
C31_Witness ==
  \E p \in SeqProcs :
    /\ Completed(p, "import")
    /\ \E k \in 1..Len(run[p].results) :
         /\ run[p].results[k] = "path"
         /\ run[p].rows[k].uuid = uuidB1
         /\ HasBadWord(pathOf(run[p].rows[k]))
         /\ pathOf(run[p].rows[k]) \notin DOMAIN vaultFiles
         /\ ~has(run[p].cache, uuidB1)
         /\ ~has(Persisted, uuidB1)

\* ---------------------------------------------------------------------
\* one writeNote for each record
\* ---------------------------------------------------------------------

\* C32: the rows an Import loops over have pairwise different identifiers,
\* and the loop hands each row to writeNote once: the rows before the current
\* one have one result each and the loop ends after the last.
C32_EachIdHandedOverOnce ==
  \A p \in SeqProcs :
    run[p].kind = "import" =>
      /\ \A i, j \in 1..Len(run[p].rows) :
           i # j => run[p].rows[i].uuid # run[p].rows[j].uuid
      /\ run[p].pc \in {"row", "file", "wload", "wsave", "done"} =>
           /\ Len(run[p].results) = run[p].i - 1
           /\ run[p].i <= Len(run[p].rows) + 1

\* An Import wrote the record that has two tags, once, and another record.
C32_Witness ==
  \E p \in SeqProcs :
    /\ Completed(p, "import")
    /\ Cardinality(WrittenAt(run[p])) = 2
    /\ \E k \in WrittenAt(run[p]) :
         /\ run[p].rows[k].uuid = uuidA2
         /\ Len(run[p].rows[k].tags) = 2
         /\ \A j \in 1..Len(run[p].rows) : run[p].rows[j].uuid = uuidA2 => j = k

\* ---------------------------------------------------------------------
\* the database handle
\* ---------------------------------------------------------------------

\* C33: a command that opened the database has closed it once when it ends,
\* normally or because the query, the cache save or the write-back threw,
\* and not before; one that did not get to open it closes nothing.
C33_ClosedExactlyOnce ==
  \A p \in SeqProcs :
    /\ run[p].pc = "done" => (run[p].closes = 1 /\ ~run[p].dbOpen)
    /\ run[p].pc = "failed" =>
         /\ ~run[p].dbOpen
         /\ run[p].err \in {"query", "save", "export"} => run[p].closes = 1
         /\ run[p].err \in {"resolve", "open"} => run[p].closes = 0
         /\ run[p].err \in {"query", "save", "export", "resolve", "open"}
    /\ Active(p) =>
         /\ run[p].closes = 0
         /\ run[p].dbOpen = (run[p].pc # "open")

\* An Import ended when the cache save of its second record threw, with the
\* handle closed once.
C33_Witness ==
  \E p \in SeqProcs :
    /\ run[p].pc = "failed" /\ run[p].kind = "import"
    /\ run[p].err = "save"
    /\ Len(run[p].results) = 1
    /\ run[p].closes = 1
    /\ ~run[p].dbOpen

\* ---------------------------------------------------------------------
\* two Import commands at once
\* ---------------------------------------------------------------------
\* The command callback calls runImporter without awaiting it, so a second
\* Import can start while the first is suspended at an await.  Each action
\* is the code between two awaits; ensureFolder is taken in its two parts,
\* the lookup and the awaited createFolder.

\* Three records with valid, different paths and different stop dates.
ThreeTasks ==
  { r \in TaskPool : r.uuid \in {uuidA1, uuidC1} }
    \cup { [r EXCEPT !.uuid = uuidB1, !.title = <<"C","a","l","l">>,
                     !.stopDate = Num(2)] : r \in { q \in TaskPool : q.uuid = uuidA1 } }

InitTwo ==
  /\ tasks \in { { r \in TaskPool : r.uuid = uuidA1 }, ThreeTasks }
  /\ settings \in { st \in SettingsPool : st.destinationFolder # <<>> }
  /\ now = MaxClock
  /\ vaultFiles = <<>>
  /\ vaultFolders = {}
  /\ cacheFile = NoCacheFile
  /\ dbFileWrites = 0
  /\ run = [p \in Procs |-> IdleRun]
  /\ lastOp = "none"
  /\ nRuns = 0
  /\ disk = <<>>
  /\ pathService = NoPathService
  /\ svc = NoService
  /\ conv = NoConversion

\* An ensureFolder that gives up as soon as createFolder throws.
CreateFolderOnce(p) ==
  /\ run[p].pc = "mkdir"
  /\ \E ok \in BOOLEAN :
       IF ok /\ prepareFilePath(CurrentRow(p), settings).folder \notin vaultFolders
       THEN /\ vaultFolders' = vaultFolders
                                 \cup {prepareFilePath(CurrentRow(p), settings).folder}
            /\ run' = [run EXCEPT ![p] = [@ EXCEPT !.pc = "file"]]
       ELSE /\ UNCHANGED vaultFolders
            /\ run' = [run EXCEPT ![p] = Skipped(@, "folder")]
  /\ UNCHANGED <<tasks, settings, now, vaultFiles, cacheFile, dbFileWrites,
                 lastOp, nRuns>>
  /\ UNCHANGED serviceVars

\* writeNote up to ensureFolder's lookup: getAbstractFileByPath(folder)
EnsureFolderLookup(p) ==
  /\ run[p].pc = "row"
  /\ run[p].i <= Len(run[p].rows)
  /\ run' = [run EXCEPT ![p] =
               [@ EXCEPT !.pc =
                  IF prepareFilePath(CurrentRow(p), settings).folder = <<>>
                     \/ prepareFilePath(CurrentRow(p), settings).folder \in vaultFolders
                  THEN "file" ELSE "mkdir"]]
  /\ UNCHANGED <<tasks, settings, now, vaultFiles, vaultFolders, cacheFile,
                 dbFileWrites, lastOp, nRuns>>
  /\ UNCHANGED serviceVars

\* await vault.createFolder(folder): it throws when the folder is there by
\* now, or for a reason of its own; the catch block looks the folder up again.
CreateFolder(p) ==
  /\ run[p].pc = "mkdir"
  /\ \E ok \in BOOLEAN :
       IF ok /\ prepareFilePath(CurrentRow(p), settings).folder \notin vaultFolders
       THEN /\ vaultFolders' = vaultFolders
                                 \cup {prepareFilePath(CurrentRow(p), settings).folder}
            /\ run' = [run EXCEPT ![p] = [@ EXCEPT !.pc = "file"]]
       ELSE /\ UNCHANGED vaultFolders
            /\ run' = [run EXCEPT ![p] =
                         IF prepareFilePath(CurrentRow(p), settings).folder
                              \in vaultFolders
                         THEN [@ EXCEPT !.pc = "file", !.folderRaced = TRUE]
                         ELSE Skipped(@, "folder")]
  /\ UNCHANGED <<tasks, settings, now, vaultFiles, cacheFile, dbFileWrites,
                 lastOp, nRuns>>
  /\ UNCHANGED serviceVars

NextTwo ==
  \E p \in Procs :
    \/ Start(p, "import")
    \/ OpenDatabase(p)
    \/ LoadCache(p)
    \/ GetTasks(p)
    \/ EnsureFolderLookup(p)
    \/ CreateFolder(p)
    \/ CreateFile(p)
    \/ WriteNoteAdd(p)
    \/ WriteNoteSave(p)
    \/ FinishImport(p)

SpecTwo == InitTwo /\ [][NextTwo]_vars

FolderOf(p) == prepareFilePath(CurrentRow(p), settings).folder

\* C34: when the folder was missing at the lookup, the createFolder step
\* either creates it, or fails; after a failure the record goes on to
\* createFile if the folder is there by then, and is skipped, with nothing
\* written, only if it is still missing.
C34_RecheckAfterFailedCreate ==
  [][\A p \in Procs :
       (run[p].pc = "mkdir" /\ run'[p] # run[p]) =>
         IF vaultFolders' # vaultFolders
         THEN /\ FolderOf(p) \notin vaultFolders
              /\ vaultFolders' = vaultFolders \cup {FolderOf(p)}
              /\ run'[p].pc = "file"
         ELSE IF FolderOf(p) \in vaultFolders
              THEN /\ run'[p].pc = "file"
                   /\ run'[p].i = run[p].i
                   /\ run'[p].results = run[p].results
              ELSE /\ run'[p].pc = "row"
                   /\ run'[p].i = run[p].i + 1
                   /\ run'[p].results = Append(run[p].results, "folder")
                   /\ vaultFiles' = vaultFiles]_vars

\* An Import whose createFolder threw because the other Import had created
\* the folder meanwhile wrote its record all the same.
C34_Witness ==
  \E p \in Procs :
    /\ run[p].pc = "done"
    /\ run[p].folderRaced
    /\ Len(run[p].rows) = 1
    /\ run[p].results = <<"written">>
    /\ pathOf(run[p].rows[1]) \in DOMAIN vaultFiles
    /\ prepareFilePath(run[p].rows[1], settings).folder \in vaultFolders

\* C39: when two interleaved Imports have both run to their end, with no
\* failed folder creation, file write or cache read in either, the vault has
\* one document for each eligible record and imported.json has the
\* identifier of each.
C39_InterleavedImportsLoseNothing ==
  ( /\ \A p \in Procs : run[p].pc = "done" /\ run[p].kind = "import"
    /\ \A p \in Procs : NothingFailed(p) )
  => /\ DOMAIN vaultFiles = EligiblePaths
     /\ Cardinality(DOMAIN vaultFiles) = Cardinality(EligibleIds)
     /\ EligibleIds \subseteq DOMAIN Persisted

\* ---------------------------------------------------------------------
\* the date stamp of the file name and t3_created_date
\* ---------------------------------------------------------------------

\* Creation and start dates as TMTask can hold them: none, zero, two packed
\* dates, an integer that decodes to no date, and a Unix timestamp.
StampDates ==
  {Null, Num(0), Num(Packed20251212), Num(Pack(2024, 2, 29, 0)), Num(5),
   [whole |-> 1765540800, frac |-> 500]}

\* One record, with each pair of creation and start date.
InitStamp ==
  /\ tasks \in { { [r EXCEPT !.creationDate = c, !.startDate = s] :
                     r \in { q \in TaskPool : q.uuid = uuidA1 } } :
                 c \in StampDates, s \in StampDates }
  /\ settings \in SettingsPool
  /\ now = 0
  /\ vaultFiles = <<>>
  /\ vaultFolders = {}
  /\ cacheFile = NoCacheFile
  /\ dbFileWrites = 0
  /\ run = [p \in Procs |-> IdleRun]
  /\ lastOp = "none"
  /\ nRuns = 0
  /\ disk = <<>>
  /\ pathService = NoPathService
  /\ svc = NoService
  /\ conv = NoConversion

NextStamp ==
  \E p \in SeqProcs :
    \/ NoneActive /\ Start(p, "import")
    \/ OpenDatabase(p)
    \/ LoadCache(p)
    \/ GetTasks(p)
    \/ EnsureFolder(p)
    \/ CreateFile(p)
    \/ WriteNoteAdd(p)
    \/ WriteNoteSave(p)
    \/ FinishImport(p)

SpecStamp == InitStamp /\ [][NextStamp]_vars

\* The path of the note of a row were its date stamp dateStr.
StampedPath(dateStr, row, st) ==
  InFolder(prepareFilePath(row, st).folder,
           FileName(dateStr,
                    IF ~IsBlank(row.title) THEN row.title
                    ELSE <<"U","n","t","i","t","l","e","d">>,
                    row.uuid)).filePath

\* C35: the note of a written record is at the path whose date stamp is the
\* YYYYMMDD of the note's t3_created_date, and has no stamp exactly when that
\* field is empty.
C35_StampIsCreatedDate ==
  \A p \in SeqProcs :
    \A k \in WrittenAt(run[p]) :
      pathOf(run[p].rows[k]) \in DOMAIN vaultFiles =>
        pathOf(run[p].rows[k]) =
          StampedPath(YYYYMMDD(vaultFiles[pathOf(run[p].rows[k])].t3_created_date),
                      run[p].rows[k], settings)

\* ---------------------------------------------------------------------
\* the entries imported.json had when a command began
\* ---------------------------------------------------------------------

\* C36: when an Import or a RebuildCacheOnly has run to its end, each entry
\* imported.json had when the command began is still in it, with the same
\* importedAt and filePath.
C36_PriorEntriesKept ==
  \A p \in SeqProcs :
    (Completed(p, "import") \/ Completed(p, "rebuild")) =>
      \A u \in DOMAIN run[p].startCache :
        u \in DOMAIN Persisted /\ Persisted[u] = run[p].startCache[u]

\* ---------------------------------------------------------------------
\* the paths imported.json names
\* ---------------------------------------------------------------------

\* The note at path is the note of the record u, or of another record of the
\* database whose note has the same path and was written over it.
NoteWrittenAt(path, u) ==
  /\ path \in DOMAIN vaultFiles
  /\ \/ vaultFiles[path].t3_uuid = u
     \/ \E q \in tasks : /\ q.uuid # u
                         /\ pathOf(q) = path
                         /\ vaultFiles[path] = contentOf(q)

\* C37: while Imports run, are interrupted and run again, and nobody deletes
\* a note, each entry of imported.json with a non-empty filePath belongs to a
\* record of the database whose note path it is, and a note is at that path.
C37_CachedPathsWereWritten ==
  \A u \in DOMAIN Persisted :
    Persisted[u].filePath # <<>> =>
      /\ \E r \in tasks : r.uuid = u /\ pathOf(r) = Persisted[u].filePath
      /\ NoteWrittenAt(Persisted[u].filePath, u)

\* A second Import is under way, the first one having left entries of two
\* records.
C37_Witness ==
  /\ nRuns = 2
  /\ \E p \in SeqProcs : run[p].kind = "import" /\ run[p].pc = "wsave"
  /\ Cardinality({ u \in DOMAIN Persisted : Persisted[u].filePath # <<>> }) = 2

\* ---------------------------------------------------------------------
\* imported.json holding JSON that is not an object
\* ---------------------------------------------------------------------

\* imported.json absent, written by save(), and with the texts "null", a
\* number and an array, which JSON.parse accepts.
JsonFiles ==
  {NoCacheFile,
   save(add(EmptyCache, uuidA1, [importedAt |-> 0, filePath |-> <<"a",".","m","d">>])),
   saveOther("null"), saveOther("number"), saveOther("array")}

InitJson ==
  /\ tasks = {}
  /\ settings \in { st \in SettingsPool : st.filterTags = Str(<<>>) }
  /\ now = 0
  /\ vaultFiles = <<>>
  /\ vaultFolders = {}
  /\ cacheFile \in JsonFiles
  /\ dbFileWrites = 0
  /\ run = [p \in Procs |-> IdleRun]
  /\ lastOp = "none"
  /\ nRuns = 0
  /\ disk = <<>>
  /\ pathService = NoPathService
  /\ svc = NewService
  /\ conv = NoConversion

\* cache.has(uuid): Object.prototype.hasOwnProperty.call(this.cache, uuid) is
\* a TypeError when this.cache is null; a number is wrapped and has no such
\* property.
SvcHas ==
  /\ svc.pc = "ready"
  /\ \E uuid \in CacheKeys :
       svc' = [svc EXCEPT !.last = "has", !.failed = (svc.shape = "null"),
                          !.fileBefore = cacheFile]
  /\ UNCHANGED <<cacheFile, notCacheVars>>

NextJson == SvcLoad \/ SvcHas \/ SvcAdd \/ SvcSave

SpecJson == InitJson /\ [][NextJson]_vars

\* C38: whatever imported.json holds, a has() or an add() made on the cache,
\* after a load() or before any, returns without throwing.
C38_HasAndAddNeverFail ==
  svc.last \in {"has", "add"} => ~svc.failed

====
